---- MODULE Spec2Model ----
(***************************************************************************)
(* rvideo: multi-stream broadcasting server (src/src/server.rs), its       *)
(* connection gate (src/src/semaphore.rs) and the frame framing shared     *)
(* with the blocking client (src/src/client.rs).                           *)
(*                                                                         *)
(* Granularity: every critical section of a parking_lot mutex is one       *)
(* action (lock, body, unlock); Condvar::wait releases the mutex and parks *)
(* the thread, the wake-up is a separate action.  Socket I/O of a handler  *)
(* is one action per write_all / read_exact with a nondeterministic        *)
(* outcome (Ok or io::Error).                                              *)
(***************************************************************************)
EXTENDS Integers, Sequences, FiniteSets, TLC

\* ---------------------------------------------------------------- bounds
MaxConn == 2        \* TCP connections the environment opens
MaxSends == 3       \* send_frame calls, one streaming client (SpecStream)
FanSends == 2       \* send_frame calls, several clients (Spec, SpecFanout, SpecSend)
MaxBlob == 2        \* bytes of a frame's metadata and of its data (SpecCodec)
MaxFrames == 2      \* frames written to one socket (SpecCodec)
MaxTime == 2        \* clock ticks the model lets pass
MaxAddCalls == 2    \* add_stream calls in one behaviour
MaxSelects == 2     \* select_stream calls of a client (SpecClient)
TimeoutTicks == 2   \* Server::new(timeout), in clock ticks (SpecTimeout)
TicksPerSec == 2    \* clock resolution: ticks of Instant::now() per second

\* ------------------------------------------------------ program constants
DEFAULT_MAX_CLIENTS == 16
API_VERSION == 1
U16_MAX == 65535

\* A usize length is kept as two 16-bit halves, hi * 2^16 + lo: u32::MAX is
\* beyond the integers of the model checker.
Size(hi, lo) == [hi |-> hi, lo |-> lo]
U32_MAX == Size(U16_MAX, U16_MAX)
\* a > b on usize
Gt(a, b) == a.hi > b.hi \/ (a.hi = b.hi /\ a.lo > b.lo)

Conns == 1..MaxConn
Producers == {"p1", "p2"}

\* Format, #[brw(repr = u8)]
Luma8 == 0
Rgb8 == 4
MJpeg == 64
Formats == {0, 1, 2, 3, 4, 5, 6, 7, 64}

\* inputs of the environment
FormatIn == {Rgb8}
WidthIn == {4}
HeightIn == {2}
StreamIdIn == {0, 1}                    \* stream ids callers and clients name
FpsIn == {0, 1, 2}                      \* StreamSelect.max_fps
MaxClientsIn == {1}                     \* arguments of set_max_clients
NoTime == -1                            \* last_frame: None
NoLen == Size(-1, -1)                   \* metadata: None
MetaLenIn == {NoLen}                    \* frame.metadata.map(len): None
DataLenIn == {Size(0, 24)}              \* frame.data.len(): 24
\* the sizes around the limit of send_frame: None, 3, u32::MAX, 2^32
MetaLenAll == {NoLen, Size(0, 3), U32_MAX, Size(U16_MAX + 1, 0)}
DataLenAll == {Size(0, 24), U32_MAX, Size(U16_MAX + 1, 0)}

VARIABLES
    max_clients,    \* StreamServerInner.max_clients
    client_id,      \* StreamServerInner.client_id
    streams,        \* StreamServerInner.streams, a Vec of StreamInternal
    cell,           \* the FrameCell created by handler h: FrameValue
    sem,            \* the Semaphore of serve(): permissions, capacity
    spc,            \* position of serve()
    cur,            \* connection the accept loop holds
    conn,           \* TCP connection: none / backlog / accepted
    peer,           \* the client's end of the connection is open
    out,            \* what the server wrote to the socket, in order
    hpc,            \* position of handler thread h
    hloc,           \* locals of handle_connection
    ppc,            \* position of producer p inside send_frame
    psf,            \* locals of send_frame and the record of the call
    nsends,         \* send_frame calls made
    now,            \* Instant::now()
    added,          \* add_stream: calls made, Ok results, the last result
    client,         \* a blocking Client and the bytes on their way to it
    dep             \* history of cell h: the last frame set, whether taken

vars == <<max_clients, client_id, streams, cell, sem, spc, cur, conn, peer,
          out, hpc, hloc, ppc, psf, nsends, now, added, client, dep>>

\* ------------------------------------------------------------- FrameCell
NoFrame == [by |-> "none", seq |-> 0]

\* FrameValue::default()
FrameValueDefault == [current |-> NoFrame, closed |-> FALSE]

\* a set that keeps the frame already in the slot (drop-newest)
FrameCellSetKeepOld(v, frame) ==
    IF v.current = NoFrame THEN [v EXCEPT !.current = frame] ELSE v

\* FrameCell::set: value.current = Some(frame)
FrameCellSet(v, frame) == [v EXCEPT !.current = frame]

\* a get that clones the frame and leaves it in the slot
FrameCellPeek(v) == v

\* value.current.take()
FrameCellTake(v) == [v EXCEPT !.current = NoFrame]

\* FrameCell::close: value.closed = true
FrameCellClose(v) == [v EXCEPT !.closed = TRUE]

\* a get that looks for a frame before it looks at closed
FrameCellGetTakeFirst(v) ==
    IF v.current # NoFrame THEN "frame" ELSE IF v.closed THEN "none" ELSE "wait"

\* FrameCell::get at its entry: None when closed, else the frame if there is
\* one, else the wait on data_available
FrameCellGet(v) ==
    IF v.closed THEN "none" ELSE IF v.current # NoFrame THEN "frame" ELSE "wait"

\* the locals of a send_frame that is not running; held are the mutexes the
\* thread has locked
NoCall ==
    [stream_id |-> 0, meta_len |-> NoLen, data_len |-> Size(0, 0),
     frame |-> NoFrame, clients |-> <<>>, result |-> "none",
     registered |-> {}, deposited |-> {}, nstreams |-> 0, held |-> {}]

\* the locals of a handler thread that has not read its StreamSelect; read_at
\* is the time at which its read_exact of the StreamSelect began, held are
\* the mutexes the thread has locked
NoLocals ==
    [stream_id |-> 0, max_fps |-> 0, client_id |-> 0, last_frame |-> NoTime,
     frame |-> NoFrame, result |-> "none", read_at |-> NoTime, held |-> {}]

\* nothing was set into a cell yet
NoDeposit == [last |-> NoFrame, taken |-> FALSE, at_take |-> NoFrame,
              none |-> FALSE]

\* the result of a call the client has not made
NoResult == [kind |-> "none", v |-> 0]
\* no StreamInfo was decoded
NoInfo == [id |-> 0, format |-> 0, width |-> 0, height |-> 0]
\* no select_stream call was made
NoSelect == [stream_id |-> 0, max_fps |-> 0, kind |-> "none", info |-> NoInfo]

\* no client is modelled.  A client is its fields (ready, streams_available),
\* which of the two implementations it is (async), where it is in its calls
\* (cpc), the bytes on their way to it (wire) and the bytes it wrote (req),
\* and what its calls returned (cres, sres, got); selw is the part of req
\* that select_stream wrote.
NoClient == [ready |-> FALSE, open |-> FALSE, wire |-> <<>>, sent |-> <<>>,
             got |-> <<>>, async |-> FALSE, foreign |-> FALSE, cpc |-> "none",
             streams_available |-> 0, greet |-> <<>>, cres |-> NoResult,
             sres |-> NoSelect, nsel |-> 0, req |-> <<>>, dlv |-> 0,
             selw |-> <<>>]

\* --------------------------------------------------------------- registry
StreamInternal(format, width, height) ==
    [format |-> format, width |-> width, height |-> height,
     clients |-> <<>>]

\* Vec<StreamInternal>.  A registry is [head, vec]: vec holds the streams the
\* behaviour works with; the head streams before them, added earlier as
\* Rgb8 4x2 and selected by no client, are held as their number.
Vec(head, vec) == [head |-> head, vec |-> vec]

\* Vec::len
VecLen(ss) == ss.head + Len(ss.vec)

\* Vec::get of an index below len
VecGet(ss, i) ==
    IF i < ss.head THEN StreamInternal(Rgb8, 4, 2) ELSE ss.vec[i - ss.head + 1]

\* Vec::push
VecPush(ss, x) == [ss EXCEPT !.vec = Append(@, x)]

\* streams.get(usize::from(stream_id)).is_some()
HasStream(ss, stream_id) == stream_id < VecLen(ss)

\* BTreeMap::insert
MapInsert(m, k, v) == [x \in DOMAIN m \cup {k} |-> IF x = k THEN v ELSE m[x]]

\* BTreeMap::remove
MapRemove(m, k) == [x \in DOMAIN m \ {k} |-> m[x]]

\* BTreeMap::values().cloned().collect(): the values in key order
RECURSIVE MapValues(_)
MapValues(m) ==
    IF DOMAIN m = {} THEN <<>>
    ELSE LET k == CHOOSE x \in DOMAIN m : \A y \in DOMAIN m : x <= y
         IN <<m[k]>> \o MapValues(MapRemove(m, k))

Range(s) == {s[i] : i \in DOMAIN s}

\* Server::new
Init ==
    /\ max_clients = DEFAULT_MAX_CLIENTS
    /\ streams = Vec(0, <<>>)
    /\ sem = [permissions |-> 0, capacity |-> 0]
    /\ spc = "new"
    /\ added = [calls |-> 0, nok |-> 0, last |-> "none", id |-> 0]
    /\ client_id = 0
    /\ cell = [h \in Conns |-> FrameValueDefault]
    /\ cur = 0
    /\ conn = [h \in Conns |-> "none"]
    /\ peer = [h \in Conns |-> FALSE]
    /\ out = [h \in Conns |-> <<>>]
    /\ hpc = [h \in Conns |-> "none"]
    /\ hloc = [h \in Conns |-> NoLocals]
    /\ ppc = [p \in Producers |-> "idle"]
    /\ psf = [p \in Producers |-> NoCall]
    /\ nsends = 0
    /\ now = 0
    /\ client = NoClient
    /\ dep = [h \in Conns |-> NoDeposit]

\* the registry after n add_stream calls (Rgb8, 4 x 2)
Registry(n) == Vec(0, [i \in 1..n |-> StreamInternal(Rgb8, 4, 2)])

\* ---------------------------------------------------------------- Server
\* a set_max_clients that also resizes the semaphore of a running serve()
SetMaxClientsResizes(n) ==
    /\ max_clients # n
    /\ max_clients' = n
    /\ sem' = [sem EXCEPT !.capacity = n]
    /\ UNCHANGED <<client_id, streams, cell, spc, cur, conn, peer, out,
                   hpc, hloc, ppc, psf, nsends, now, added, client, dep>>

\* Server::set_max_clients
SetMaxClients(n) ==
    /\ max_clients # n
    /\ max_clients' = n
    /\ UNCHANGED <<client_id, streams, cell, sem, spc, cur, conn, peer, out,
                   hpc, hloc, ppc, psf, nsends, now, added, client, dep>>

\* the id taken as the length after the push
NewStreamIdIsLen(ss) == VecLen(ss)

\* the id add_stream returns: u16::try_from(streams.len() - 1), after the push
NewStreamId(ss) == VecLen(ss) - 1

\* a limit check that lets the registry grow to u16::MAX + 1 streams
TooManyStreamsOffByOne(ss) == VecLen(ss) > U16_MAX

\* streams.len() >= usize::from(u16::MAX)
TooManyStreams(ss) == VecLen(ss) >= U16_MAX

\* StreamServerInner::stream_count
stream_count(ss) == VecLen(ss)

\* StreamServerInner::add_stream
AddStream(format, width, height) ==
    /\ IF TooManyStreams(streams)
         THEN /\ added' = [added EXCEPT !.calls = @ + 1, !.last = "TooManyStreams"]
              /\ UNCHANGED streams
         ELSE /\ streams' = VecPush(streams, StreamInternal(format, width, height))
              /\ added' = [calls |-> added.calls + 1, nok |-> added.nok + 1,
                           last |-> "Ok", id |-> NewStreamId(streams')]
    /\ UNCHANGED <<max_clients, client_id, cell, sem, spc, cur, conn, peer,
                   out, hpc, hloc, ppc, psf, nsends, now, client, dep>>

\* Server::serve up to the accept loop: Semaphore::new(max_clients.load())
ServeStart ==
    /\ spc = "new"
    /\ sem' = [permissions |-> 0, capacity |-> max_clients]
    /\ spc' = "accept"
    /\ UNCHANGED <<max_clients, client_id, streams, cell, cur, conn, peer,
                   out, hpc, hloc, ppc, psf, nsends, now, added, client, dep>>

\* a client opens a TCP connection to the bound listener
ClientConnect(h) ==
    /\ spc # "new"
    /\ conn[h] = "none"
    /\ conn' = [conn EXCEPT ![h] = "backlog"]
    /\ peer' = [peer EXCEPT ![h] = TRUE]
    /\ UNCHANGED <<max_clients, client_id, streams, cell, sem, spc, cur, out,
                   hpc, hloc, ppc, psf, nsends, now, added, client, dep>>

\* the client closes its end of the connection
ClientDisconnect(h) ==
    /\ peer[h]
    /\ peer' = [peer EXCEPT ![h] = FALSE]
    /\ UNCHANGED <<max_clients, client_id, streams, cell, sem, spc, cur, conn,
                   out, hpc, hloc, ppc, psf, nsends, now, added, client, dep>>

\* listener.accept() returns a connection
Accept(h) ==
    /\ spc = "accept"
    /\ conn[h] = "backlog"
    /\ conn' = [conn EXCEPT ![h] = "accepted"]
    /\ cur' = h
    /\ spc' = "acquire"
    /\ UNCHANGED <<max_clients, client_id, streams, cell, sem, peer, out,
                   hpc, hloc, ppc, psf, nsends, now, added, client, dep>>

\* acquire leaving its loop while the count does not exceed the capacity
CanAcquireOffByOne(s) == s.permissions <= s.capacity

\* Semaphore::acquire: the loop `while *count == capacity { cv.wait }` is left
CanAcquire(s) == s.permissions # s.capacity

\* Semaphore::acquire
Acquire ==
    /\ spc = "acquire"
    /\ CanAcquire(sem)
    /\ sem' = [sem EXCEPT !.permissions = @ + 1]
    /\ spc' = "spawn"
    /\ UNCHANGED <<max_clients, client_id, streams, cell, cur, conn, peer,
                   out, hpc, hloc, ppc, psf, nsends, now, added, client, dep>>

\* thread::spawn of the handler, the guard moves into the closure
Spawn ==
    /\ spc = "spawn"
    /\ hpc' = [hpc EXCEPT ![cur] = "greet"]
    /\ spc' = "accept"
    /\ cur' = 0
    /\ UNCHANGED <<max_clients, client_id, streams, cell, sem, conn, peer,
                   out, hloc, ppc, psf, nsends, now, added, client, dep>>

\* Instant::now() advances
Tick ==
    /\ now' = now + 1
    /\ UNCHANGED <<max_clients, client_id, streams, cell, sem, spc, cur, conn,
                   peer, out, hpc, hloc, ppc, psf, nsends, added, client, dep>>

\* ------------------------------------------------------------ send_frame
\* the checks of send_frame with the data length checked before the metadata
SendFrameCheckDataFirst(ss, stream_id, meta_len, data_len) ==
    IF Gt(data_len, U32_MAX) THEN "FrameDataTooLarge"
    ELSE IF meta_len # NoLen /\ Gt(meta_len, U32_MAX) THEN "FrameMetaDataTooLarge"
    ELSE IF ~HasStream(ss, stream_id) THEN "InvalidStream"
    ELSE "Ok"

\* the checks of send_frame before the registry is locked, and the lookup
SendFrameCheck(ss, stream_id, meta_len, data_len) ==
    IF meta_len # NoLen /\ Gt(meta_len, U32_MAX) THEN "FrameMetaDataTooLarge"
    ELSE IF Gt(data_len, U32_MAX) THEN "FrameDataTooLarge"
    ELSE IF ~HasStream(ss, stream_id) THEN "InvalidStream"
    ELSE "Ok"

\* data_available.notify_one(): the consumer of cell c, if parked, is woken
NotifyOne(pcs, c) == IF pcs[c] = "wait" THEN [pcs EXCEPT ![c] = "woken"] ELSE pcs

\* send_frame from its entry to the release of the registry lock: the size
\* checks, then under streams.lock() the snapshot of the stream's cells.
\* With no cell in the snapshot the loop is empty and the call returns Ok.
SendFrameCall(p, stream_id, meta_len, data_len) ==
    /\ ppc[p] = "idle"
    /\ nsends' = nsends + 1
    /\ LET r == SendFrameCheck(streams, stream_id, meta_len, data_len)
           clients == IF r = "Ok" THEN MapValues(VecGet(streams, stream_id).clients)
                      ELSE <<>>
       IN /\ psf' = [psf EXCEPT ![p] =
                       [stream_id |-> stream_id, meta_len |-> meta_len,
                        data_len |-> data_len,
                        frame |-> [by |-> p, seq |-> nsends + 1],
                        clients |-> clients,
                        result |-> IF r = "Ok" /\ clients # <<>> THEN "none" ELSE r,
                        registered |->
                            IF r = "Ok"
                            THEN {VecGet(streams, stream_id).clients[k] :
                                    k \in DOMAIN VecGet(streams, stream_id).clients}
                            ELSE {},
                        deposited |-> {},
                        nstreams |-> VecLen(streams),
                        held |-> {}]]
          /\ ppc' = [ppc EXCEPT ![p] = IF r = "Ok" /\ clients # <<>>
                                       THEN "set" ELSE "ret"]
    /\ UNCHANGED <<max_clients, client_id, streams, cell, sem, spc, cur, conn,
                   peer, out, hpc, hloc, now, added, client, dep>>

\* a set that waits until the consumer has emptied the slot
SendFrameSetBlocking(p) ==
    /\ ppc[p] = "set"
    /\ cell[Head(psf[p].clients)].current = NoFrame
    /\ LET c == Head(psf[p].clients)
           rest == Tail(psf[p].clients)
       IN /\ cell' = [cell EXCEPT ![c] = [@ EXCEPT !.current = psf[p].frame]]
          /\ hpc' = NotifyOne(hpc, c)
          /\ psf' = [psf EXCEPT ![p].clients = rest,
                                ![p].deposited = @ \cup {c},
                                ![p].result = IF rest = <<>> THEN "Ok" ELSE "none"]
          /\ ppc' = [ppc EXCEPT ![p] = IF rest = <<>> THEN "ret" ELSE "set"]
    /\ dep' = [dep EXCEPT ![Head(psf[p].clients)] =
                  [@ EXCEPT !.last = psf[p].frame, !.taken = FALSE]]
    /\ UNCHANGED <<max_clients, client_id, streams, sem, spc, cur, conn, peer,
                   out, hloc, nsends, now, added, client>>

\* a loop that reads the registry again in every iteration instead of
\* iterating the snapshot
SendFrameSetLive(p) ==
    /\ ppc[p] = "set"
    /\ LET live == MapValues(VecGet(streams, psf[p].stream_id).clients)
           todo == SelectSeq(live, LAMBDA c : c \notin psf[p].deposited)
       IN IF todo = <<>>
          THEN /\ psf' = [psf EXCEPT ![p].clients = <<>>, ![p].result = "Ok"]
               /\ ppc' = [ppc EXCEPT ![p] = "ret"]
               /\ UNCHANGED <<cell, hpc, dep>>
          ELSE /\ cell' = [cell EXCEPT ![Head(todo)] =
                             [@ EXCEPT !.current = psf[p].frame]]
               /\ hpc' = NotifyOne(hpc, Head(todo))
               /\ psf' = [psf EXCEPT ![p].deposited = @ \cup {Head(todo)}]
               /\ ppc' = ppc
               /\ dep' = [dep EXCEPT ![Head(todo)] =
                             [@ EXCEPT !.last = psf[p].frame, !.taken = FALSE]]
    /\ UNCHANGED <<max_clients, client_id, streams, sem, spc, cur, conn, peer,
                   out, hloc, nsends, now, added, client>>

\* one iteration of `for tx in clients { tx.set(frame.clone()) }`; after the
\* last one the result is Ok(())
SendFrameSet(p) ==
    /\ ppc[p] = "set"
    /\ LET c == Head(psf[p].clients)
           rest == Tail(psf[p].clients)
       IN /\ cell' = [cell EXCEPT ![c] = FrameCellSet(@, psf[p].frame)]
          /\ hpc' = NotifyOne(hpc, c)
          /\ psf' = [psf EXCEPT ![p].clients = rest,
                                ![p].deposited = @ \cup {c},
                                ![p].result = IF rest = <<>> THEN "Ok" ELSE "none"]
          /\ ppc' = [ppc EXCEPT ![p] = IF rest = <<>> THEN "ret" ELSE "set"]
    /\ dep' = [dep EXCEPT ![Head(psf[p].clients)] =
                  [@ EXCEPT !.last = psf[p].frame, !.taken = FALSE]]
    /\ UNCHANGED <<max_clients, client_id, streams, sem, spc, cur, conn, peer,
                   out, hloc, nsends, now, added, client>>

\* send_frame returns to its caller, its locals are dropped
SendFrameReturn(p) ==
    /\ ppc[p] = "ret"
    /\ ppc' = [ppc EXCEPT ![p] = "idle"]
    /\ psf' = [psf EXCEPT ![p] = NoCall]
    /\ UNCHANGED <<max_clients, client_id, streams, cell, sem, spc, cur, conn,
                   peer, out, hpc, hloc, nsends, now, added, client, dep>>

\* ------------------------------------------------------------ wire bytes
LE16(n) == <<n % 256, (n \div 256) % 256>>
\* u32::to_le_bytes of a size that fits u32
LE32(n) == LE16(n.lo) \o LE16(n.hi)

\* a value no byte string equals: the thread panicked (unwrap of an Err)
Panic == <<-1>>

\* StreamServerInner::greetings: magic b"R", api_version, streams_available
greetings(ss) ==
    IF VecLen(ss) > U16_MAX THEN Panic
    ELSE <<82, API_VERSION>> \o LE16(VecLen(ss))

\* StreamServerInner::stream_info_packed, for a registered stream
stream_info_packed(ss, stream_id) ==
    LE16(stream_id) \o <<VecGet(ss, stream_id).format>>
        \o LE16(VecGet(ss, stream_id).width) \o LE16(VecGet(ss, stream_id).height)

Msg(kind, bytes, frame, ts) ==
    [kind |-> kind, bytes |-> bytes, frame |-> frame, ts |-> ts]

\* the handler leaves handle_connection (return, or unwinding after a panic)
Return(h, result) ==
    /\ hpc' = [hpc EXCEPT ![h] = "returned"]
    /\ hloc' = [hloc EXCEPT ![h].result = result, ![h].frame = NoFrame]

\* ------------------------------------------------------ handle_connection
\* socket setup and socket.write_all(&self.greetings()); read_exact of the
\* StreamSelect begins
HGreet(h, ok) ==
    /\ hpc[h] = "greet"
    /\ IF greetings(streams) = Panic
         THEN Return(h, "Panic") /\ UNCHANGED out
         ELSE IF ok /\ peer[h]
         THEN /\ out' = [out EXCEPT ![h] =
                           Append(@, Msg("Greeting", greetings(streams), NoFrame, NoTime))]
              /\ hpc' = [hpc EXCEPT ![h] = "select"]
              /\ hloc' = [hloc EXCEPT ![h].read_at = now]
         ELSE Return(h, "Io") /\ UNCHANGED out
    /\ UNCHANGED <<max_clients, client_id, streams, cell, sem, spc, cur, conn,
                   peer, ppc, psf, nsends, now, added, client, dep>>

\* socket.read_exact(stream_select_buf) and StreamSelect::read
HReadSelect(h, ok, stream_id, max_fps) ==
    /\ hpc[h] = "select"
    /\ IF ok /\ peer[h]
         THEN /\ hloc' = [hloc EXCEPT ![h].stream_id = stream_id,
                                      ![h].max_fps = max_fps]
              /\ hpc' = [hpc EXCEPT ![h] = "info"]
         ELSE Return(h, "Io")
    /\ UNCHANGED <<max_clients, client_id, streams, cell, sem, spc, cur, conn,
                   peer, out, ppc, psf, nsends, now, added, client, dep>>

\* a handler that goes on to write the StreamInfo without the lookup
HStreamInfoNoLookup(h) ==
    /\ hpc[h] = "info"
    /\ hpc' = [hpc EXCEPT ![h] = "winfo"]
    /\ UNCHANGED <<max_clients, client_id, streams, cell, sem, spc, cur, conn,
                   peer, out, hloc, ppc, psf, nsends, now, added, client, dep>>

\* self.stream_info_packed(stream_select.stream_id)?
HStreamInfo(h) ==
    /\ hpc[h] = "info"
    /\ IF HasStream(streams, hloc[h].stream_id)
         THEN hpc' = [hpc EXCEPT ![h] = "winfo"] /\ UNCHANGED hloc
         ELSE Return(h, "InvalidStream")
    /\ UNCHANGED <<max_clients, client_id, streams, cell, sem, spc, cur, conn,
                   peer, out, ppc, psf, nsends, now, added, client, dep>>

\* a handler that goes on to register without writing the StreamInfo
HWriteInfoSkipped(h, ok) ==
    /\ hpc[h] = "winfo"
    /\ hpc' = [hpc EXCEPT ![h] = "alloc"]
    /\ UNCHANGED <<max_clients, client_id, streams, cell, sem, spc, cur, conn,
                   peer, out, hloc, ppc, psf, nsends, now, added, client, dep>>

\* socket.write_all(&stram_info_packed)?; the bytes were packed by HStreamInfo
\* (format, width and height of a registered stream never change)
HWriteInfo(h, ok) ==
    /\ hpc[h] = "winfo"
    /\ IF ok /\ peer[h]
         THEN /\ out' = [out EXCEPT ![h] =
                           Append(@, Msg("StreamInfo",
                                         stream_info_packed(streams, hloc[h].stream_id),
                                         NoFrame, NoTime))]
              /\ hpc' = [hpc EXCEPT ![h] = "alloc"]
              /\ UNCHANGED hloc
         ELSE Return(h, "Io") /\ UNCHANGED out
    /\ UNCHANGED <<max_clients, client_id, streams, cell, sem, spc, cur, conn,
                   peer, ppc, psf, nsends, now, added, client, dep>>

\* a handler that reads the counter and does not advance it
HAllocNoIncrement(h) ==
    /\ hpc[h] = "alloc"
    /\ client_id' = client_id
    /\ IF hloc[h].max_fps = 0
         THEN /\ hpc' = [hpc EXCEPT ![h] = "returned"]
              /\ hloc' = [hloc EXCEPT ![h].client_id = client_id,
                                      ![h].result = "Panic"]
         ELSE /\ hpc' = [hpc EXCEPT ![h] = "add"]
              /\ hloc' = [hloc EXCEPT ![h].client_id = client_id]
    /\ UNCHANGED <<max_clients, streams, cell, sem, spc, cur, conn, peer, out,
                   ppc, psf, nsends, now, added, client, dep>>

\* self.client_id.fetch_add(1), then Duration::from_secs_f64(1.0 / max_fps),
\* which panics for max_fps = 0 (1.0 / 0.0 is infinite)
HAlloc(h) ==
    /\ hpc[h] = "alloc"
    /\ client_id' = client_id + 1
    /\ IF hloc[h].max_fps = 0
         THEN /\ hpc' = [hpc EXCEPT ![h] = "returned"]
              /\ hloc' = [hloc EXCEPT ![h].client_id = client_id,
                                      ![h].result = "Panic"]
         ELSE /\ hpc' = [hpc EXCEPT ![h] = "add"]
              /\ hloc' = [hloc EXCEPT ![h].client_id = client_id]
    /\ UNCHANGED <<max_clients, streams, cell, sem, spc, cur, conn, peer, out,
                   ppc, psf, nsends, now, added, client, dep>>

\* an add_client that makes the new cell the only one of the stream
add_clientOnly(ss, stream_id, cid, h) ==
    [ss EXCEPT !.vec[stream_id - ss.head + 1].clients = MapInsert(<<>>, cid, h)]

\* StreamServerInner::add_client on the registry: the cell of handler h is
\* inserted under client_id
add_client(ss, stream_id, cid, h) ==
    [ss EXCEPT !.vec[stream_id - ss.head + 1].clients = MapInsert(@, cid, h)]

\* a remove_client that clears the clients map of the stream
remove_clientAll(ss, stream_id, cid) ==
    IF HasStream(ss, stream_id)
    THEN [ss EXCEPT !.vec[stream_id - ss.head + 1].clients = <<>>]
    ELSE ss

\* a remove_client that removes nothing
remove_clientNothing(ss, stream_id, cid) == ss

\* StreamServerInner::remove_client on the registry
remove_client(ss, stream_id, cid) ==
    IF HasStream(ss, stream_id)
    THEN [ss EXCEPT !.vec[stream_id - ss.head + 1].clients = MapRemove(@, cid)]
    ELSE ss

\* let rx = self.add_client(stream_select.stream_id, client_id)?
HAddClient(h) ==
    /\ hpc[h] = "add"
    /\ IF HasStream(streams, hloc[h].stream_id)
         THEN /\ streams' = add_client(streams, hloc[h].stream_id,
                                       hloc[h].client_id, h)
              /\ cell' = [cell EXCEPT ![h] = FrameValueDefault]
              /\ hpc' = [hpc EXCEPT ![h] = "get"]
              /\ UNCHANGED hloc
         ELSE Return(h, "InvalidStream") /\ UNCHANGED <<streams, cell>>
    /\ dep' = IF HasStream(streams, hloc[h].stream_id)
              THEN [dep EXCEPT ![h] = NoDeposit] ELSE dep
    /\ UNCHANGED <<max_clients, client_id, sem, spc, cur, conn, peer, out,
                   ppc, psf, nsends, now, added, client>>

\* FrameCell::get from its entry: closed ends the iterator, a frame is taken,
\* an empty cell parks the thread on data_available
HGet(h) ==
    /\ hpc[h] = "get"
    /\ IF FrameCellGet(cell[h]) = "none"
         THEN Return(h, "Ok") /\ UNCHANGED cell
         ELSE IF FrameCellGet(cell[h]) = "frame"
         THEN /\ hloc' = [hloc EXCEPT ![h].frame = cell[h].current]
              /\ cell' = [cell EXCEPT ![h] = FrameCellTake(@)]
              /\ hpc' = [hpc EXCEPT ![h] = "now"]
         ELSE /\ hpc' = [hpc EXCEPT ![h] = "wait"]
              /\ UNCHANGED <<hloc, cell>>
    /\ dep' = IF FrameCellGet(cell[h]) = "none"
              THEN [dep EXCEPT ![h] = [@ EXCEPT !.none = TRUE]]
              ELSE IF FrameCellGet(cell[h]) = "frame"
              THEN [dep EXCEPT ![h] = [@ EXCEPT !.taken = TRUE, !.at_take = dep[h].last]]
              ELSE dep
    /\ UNCHANGED <<max_clients, client_id, streams, sem, spc, cur, conn, peer,
                   out, ppc, psf, nsends, now, added, client>>

\* FrameCell::get after data_available.wait returned: the loop takes the
\* frame or waits again (closed is not read again)
HWake(h) ==
    /\ hpc[h] = "woken"
    /\ IF cell[h].current # NoFrame
         THEN /\ hloc' = [hloc EXCEPT ![h].frame = cell[h].current]
              /\ cell' = [cell EXCEPT ![h] = FrameCellTake(@)]
              /\ hpc' = [hpc EXCEPT ![h] = "now"]
         ELSE /\ hpc' = [hpc EXCEPT ![h] = "wait"]
              /\ UNCHANGED <<hloc, cell>>
    /\ dep' = IF cell[h].current # NoFrame
              THEN [dep EXCEPT ![h] = [@ EXCEPT !.taken = TRUE, !.at_take = dep[h].last]]
              ELSE dep
    /\ UNCHANGED <<max_clients, client_id, streams, sem, spc, cur, conn, peer,
                   out, ppc, psf, nsends, now, added, client>>

\* the comparison of the rate check inverted
TooSoonInverted(elapsed, max_fps) == elapsed * max_fps > TicksPerSec

\* elapsed < min_time_between_frames, with min_time_between_frames = 1 s / max_fps
TooSoon(elapsed, max_fps) == elapsed * max_fps < TicksPerSec

\* the frame is skipped: last_frame is Some and too little time has passed
Skip(last_frame, t, max_fps) ==
    last_frame # NoTime /\ TooSoon(t - last_frame, max_fps)

\* a rate check that stamps last_frame also when it skips the frame
HNowStampOnSkip(h) ==
    /\ hpc[h] = "now"
    /\ IF Skip(hloc[h].last_frame, now, hloc[h].max_fps)
         THEN /\ hpc' = [hpc EXCEPT ![h] = "get"]
              /\ hloc' = [hloc EXCEPT ![h].frame = NoFrame, ![h].last_frame = now]
         ELSE /\ hpc' = [hpc EXCEPT ![h] = "write"]
              /\ hloc' = [hloc EXCEPT ![h].last_frame = now]
    /\ UNCHANGED <<max_clients, client_id, streams, cell, sem, spc, cur, conn,
                   peer, out, ppc, psf, nsends, now, added, client, dep>>

\* let now = Instant::now(); the rate check; last_frame.replace(now)
HNow(h) ==
    /\ hpc[h] = "now"
    /\ IF Skip(hloc[h].last_frame, now, hloc[h].max_fps)
         THEN /\ hpc' = [hpc EXCEPT ![h] = "get"]
              /\ hloc' = [hloc EXCEPT ![h].frame = NoFrame]
         ELSE /\ hpc' = [hpc EXCEPT ![h] = "write"]
              /\ hloc' = [hloc EXCEPT ![h].last_frame = now]
    /\ UNCHANGED <<max_clients, client_id, streams, cell, sem, spc, cur, conn,
                   peer, out, ppc, psf, nsends, now, added, client, dep>>

\* Self::write_frame(socket, frame); on an error remove_client and break
HWrite(h, ok) ==
    /\ hpc[h] = "write"
    /\ IF ok /\ peer[h]
         THEN /\ out' = [out EXCEPT ![h] =
                           Append(@, Msg("Frame", <<>>, hloc[h].frame,
                                         hloc[h].last_frame))]
              /\ hpc' = [hpc EXCEPT ![h] = "get"]
              /\ hloc' = [hloc EXCEPT ![h].frame = NoFrame]
              /\ UNCHANGED streams
         ELSE /\ streams' = remove_client(streams, hloc[h].stream_id,
                                          hloc[h].client_id)
              /\ Return(h, "Ok")
              /\ UNCHANGED out
    /\ UNCHANGED <<max_clients, client_id, cell, sem, spc, cur, conn, peer,
                   ppc, psf, nsends, now, added, client, dep>>

\* a release that leaves the count as it is
releaseNothing(s) == s

\* SemaphoreInner::release
release(s) == [s EXCEPT !.permissions = @ - 1]

\* the closure of thread::spawn ends: _permission is dropped
HExit(h) ==
    /\ hpc[h] = "returned"
    /\ sem' = release(sem)
    /\ hpc' = [hpc EXCEPT ![h] = "exited"]
    /\ hloc' = [hloc EXCEPT ![h] = [NoLocals EXCEPT !.result = hloc[h].result]]
    /\ UNCHANGED <<max_clients, client_id, streams, cell, spc, cur, conn, peer,
                   out, ppc, psf, nsends, now, added, client, dep>>

\* data_available.notify_all(): the consumers parked on the cells C are woken
NotifyAll(pcs, C) ==
    [h \in DOMAIN pcs |-> IF h \in C /\ pcs[h] = "wait" THEN "woken" ELSE pcs[h]]

\* the cells in the clients maps of the registry
Cells(ss) == UNION {Range(MapValues(ss.vec[i].clients)) : i \in DOMAIN ss.vec}

\* Drop for StreamServerInner: under the registry lock, close() on every cell
\* of every stream.  (The handler threads hold clones of the Arc, so the
\* running program drops the registry only when no handler is left; here
\* close is applied to the cells whatever their consumers do, as FrameCell
\* allows.)
DropClose ==
    /\ \E h \in Cells(streams) : ~cell[h].closed
    /\ cell' = [h \in Conns |-> IF h \in Cells(streams)
                                 THEN FrameCellClose(cell[h]) ELSE cell[h]]
    /\ hpc' = NotifyAll(hpc, Cells(streams))
    /\ UNCHANGED <<max_clients, client_id, streams, sem, spc, cur, conn, peer,
                   out, hloc, ppc, psf, nsends, now, added, client, dep>>

\* ------------------------------------------------------------------ locks
\* The same code with every Mutex::lock and every drop of a guard as a step of
\* its own.  A thread blocks in lock() while another thread holds the mutex.
StreamsMutex == <<"streams", 0>>         \* StreamServerInner.streams
ValueMutex(c) == <<"value", c>>          \* FrameCellInner.value of cell c

\* the mutexes that are locked
Locked ==
    UNION {hloc[h].held : h \in Conns} \cup UNION {psf[p].held : p \in Producers}

\* self.stream_count(): self.streams.lock()
GreetLock(h) ==
    /\ hpc[h] = "greet"
    /\ StreamsMutex \notin Locked
    /\ hpc' = [hpc EXCEPT ![h] = "greet_locked"]
    /\ hloc' = [hloc EXCEPT ![h].held = @ \cup {StreamsMutex}]
    /\ UNCHANGED <<max_clients, client_id, streams, cell, sem, spc, cur, conn,
                   peer, out, ppc, psf, nsends, now, added, client, dep>>

\* .len(), the guard is dropped at the end of the expression; the greeting
\* is packed (the unwrap of u16::try_from panics beyond u16::MAX streams)
GreetCount(h) ==
    /\ hpc[h] = "greet_locked"
    /\ IF greetings(streams) = Panic
         THEN /\ hpc' = [hpc EXCEPT ![h] = "returned"]
              /\ hloc' = [hloc EXCEPT ![h].result = "Panic",
                                      ![h].held = @ \ {StreamsMutex}]
         ELSE /\ hpc' = [hpc EXCEPT ![h] = "greet_write"]
              /\ hloc' = [hloc EXCEPT ![h].held = @ \ {StreamsMutex}]
    /\ UNCHANGED <<max_clients, client_id, streams, cell, sem, spc, cur, conn,
                   peer, out, ppc, psf, nsends, now, added, client, dep>>

\* socket.write_all(&self.greetings()) once greetings() has returned
GreetWrite(h, ok) ==
    /\ hpc[h] = "greet_write"
    /\ IF ok /\ peer[h]
         THEN /\ out' = [out EXCEPT ![h] =
                           Append(@, Msg("Greeting", greetings(streams), NoFrame, NoTime))]
              /\ hpc' = [hpc EXCEPT ![h] = "select"]
              /\ hloc' = [hloc EXCEPT ![h].read_at = now]
         ELSE Return(h, "Io") /\ UNCHANGED out
    /\ UNCHANGED <<max_clients, client_id, streams, cell, sem, spc, cur, conn,
                   peer, ppc, psf, nsends, now, added, client, dep>>

\* stream_info_packed: let streams = self.streams.lock()
InfoLock(h) ==
    /\ hpc[h] = "info"
    /\ StreamsMutex \notin Locked
    /\ hpc' = [hpc EXCEPT ![h] = "info_locked"]
    /\ hloc' = [hloc EXCEPT ![h].held = @ \cup {StreamsMutex}]
    /\ UNCHANGED <<max_clients, client_id, streams, cell, sem, spc, cur, conn,
                   peer, out, ppc, psf, nsends, now, added, client, dep>>

\* stream_info_packed from the lookup to its return, where the guard is
\* dropped
InfoPack(h) ==
    /\ hpc[h] = "info_locked"
    /\ IF HasStream(streams, hloc[h].stream_id)
         THEN /\ hpc' = [hpc EXCEPT ![h] = "winfo"]
              /\ hloc' = [hloc EXCEPT ![h].held = @ \ {StreamsMutex}]
         ELSE /\ hpc' = [hpc EXCEPT ![h] = "returned"]
              /\ hloc' = [hloc EXCEPT ![h].result = "InvalidStream",
                                      ![h].held = @ \ {StreamsMutex}]
    /\ UNCHANGED <<max_clients, client_id, streams, cell, sem, spc, cur, conn,
                   peer, out, ppc, psf, nsends, now, added, client, dep>>

\* add_client: FrameCell::default(), self.streams.lock()
AddClientLock(h) ==
    /\ hpc[h] = "add"
    /\ StreamsMutex \notin Locked
    /\ hpc' = [hpc EXCEPT ![h] = "add_locked"]
    /\ hloc' = [hloc EXCEPT ![h].held = @ \cup {StreamsMutex}]
    /\ UNCHANGED <<max_clients, client_id, streams, cell, sem, spc, cur, conn,
                   peer, out, ppc, psf, nsends, now, added, client, dep>>

\* add_client under the lock: get_mut, insert; the guard is dropped with the
\* if let
AddClientInsert(h) ==
    /\ hpc[h] = "add_locked"
    /\ IF HasStream(streams, hloc[h].stream_id)
         THEN /\ streams' = add_client(streams, hloc[h].stream_id,
                                       hloc[h].client_id, h)
              /\ cell' = [cell EXCEPT ![h] = FrameValueDefault]
              /\ hpc' = [hpc EXCEPT ![h] = "get"]
              /\ hloc' = [hloc EXCEPT ![h].held = @ \ {StreamsMutex}]
              /\ dep' = [dep EXCEPT ![h] = NoDeposit]
         ELSE /\ hpc' = [hpc EXCEPT ![h] = "returned"]
              /\ hloc' = [hloc EXCEPT ![h].result = "InvalidStream",
                                      ![h].held = @ \ {StreamsMutex}]
              /\ UNCHANGED <<streams, cell, dep>>
    /\ UNCHANGED <<max_clients, client_id, sem, spc, cur, conn, peer, out,
                   ppc, psf, nsends, now, added, client>>

\* FrameCell::get: let mut value = self.inner.value.lock()
GetLock(h) ==
    /\ hpc[h] = "get"
    /\ ValueMutex(h) \notin Locked
    /\ hpc' = [hpc EXCEPT ![h] = "get_locked"]
    /\ hloc' = [hloc EXCEPT ![h].held = @ \cup {ValueMutex(h)}]
    /\ UNCHANGED <<max_clients, client_id, streams, cell, sem, spc, cur, conn,
                   peer, out, ppc, psf, nsends, now, added, client, dep>>

\* a get that drops the guard after the emptiness check and parks in a step of
\* its own
GetCheckUnlocked(h) ==
    \/ /\ hpc[h] = "get_locked"
       /\ IF FrameCellGet(cell[h]) = "none"
            THEN /\ hpc' = [hpc EXCEPT ![h] = "returned"]
                 /\ hloc' = [hloc EXCEPT ![h].result = "Ok", ![h].frame = NoFrame,
                                         ![h].held = @ \ {ValueMutex(h)}]
                 /\ dep' = [dep EXCEPT ![h] = [@ EXCEPT !.none = TRUE]]
                 /\ UNCHANGED cell
            ELSE IF FrameCellGet(cell[h]) = "frame"
            THEN /\ hloc' = [hloc EXCEPT ![h].frame = cell[h].current,
                                         ![h].held = @ \ {ValueMutex(h)}]
                 /\ cell' = [cell EXCEPT ![h] = FrameCellTake(@)]
                 /\ hpc' = [hpc EXCEPT ![h] = "now"]
                 /\ dep' = [dep EXCEPT ![h] =
                               [@ EXCEPT !.taken = TRUE, !.at_take = dep[h].last]]
            ELSE /\ hpc' = [hpc EXCEPT ![h] = "unlocked"]
                 /\ hloc' = [hloc EXCEPT ![h].held = @ \ {ValueMutex(h)}]
                 /\ UNCHANGED <<cell, dep>>
       /\ UNCHANGED <<max_clients, client_id, streams, sem, spc, cur, conn, peer,
                      out, ppc, psf, nsends, now, added, client>>
    \/ /\ hpc[h] = "unlocked"
       /\ hpc' = [hpc EXCEPT ![h] = "wait"]
       /\ UNCHANGED <<max_clients, client_id, streams, cell, sem, spc, cur, conn,
                      peer, out, hloc, ppc, psf, nsends, now, added, client, dep>>

\* FrameCell::get under the lock: a return drops the guard, the wait on
\* data_available unlocks the mutex while the thread is parked
GetCheck(h) ==
    /\ hpc[h] = "get_locked"
    /\ IF FrameCellGet(cell[h]) = "none"
         THEN /\ hpc' = [hpc EXCEPT ![h] = "returned"]
              /\ hloc' = [hloc EXCEPT ![h].result = "Ok", ![h].frame = NoFrame,
                                      ![h].held = @ \ {ValueMutex(h)}]
              /\ dep' = [dep EXCEPT ![h] = [@ EXCEPT !.none = TRUE]]
              /\ UNCHANGED cell
         ELSE IF FrameCellGet(cell[h]) = "frame"
         THEN /\ hloc' = [hloc EXCEPT ![h].frame = cell[h].current,
                                      ![h].held = @ \ {ValueMutex(h)}]
              /\ cell' = [cell EXCEPT ![h] = FrameCellTake(@)]
              /\ hpc' = [hpc EXCEPT ![h] = "now"]
              /\ dep' = [dep EXCEPT ![h] =
                            [@ EXCEPT !.taken = TRUE, !.at_take = dep[h].last]]
         ELSE /\ hpc' = [hpc EXCEPT ![h] = "wait"]
              /\ hloc' = [hloc EXCEPT ![h].held = @ \ {ValueMutex(h)}]
              /\ UNCHANGED <<cell, dep>>
    /\ UNCHANGED <<max_clients, client_id, streams, sem, spc, cur, conn, peer,
                   out, ppc, psf, nsends, now, added, client>>

\* data_available.wait returns: the woken thread locks the mutex again
WakeLock(h) ==
    /\ hpc[h] = "woken"
    /\ ValueMutex(h) \notin Locked
    /\ hpc' = [hpc EXCEPT ![h] = "woken_locked"]
    /\ hloc' = [hloc EXCEPT ![h].held = @ \cup {ValueMutex(h)}]
    /\ UNCHANGED <<max_clients, client_id, streams, cell, sem, spc, cur, conn,
                   peer, out, ppc, psf, nsends, now, added, client, dep>>

\* the loop of get under the lock again: take and return, or wait
WakeCheck(h) ==
    /\ hpc[h] = "woken_locked"
    /\ IF cell[h].current # NoFrame
         THEN /\ hloc' = [hloc EXCEPT ![h].frame = cell[h].current,
                                      ![h].held = @ \ {ValueMutex(h)}]
              /\ cell' = [cell EXCEPT ![h] = FrameCellTake(@)]
              /\ hpc' = [hpc EXCEPT ![h] = "now"]
              /\ dep' = [dep EXCEPT ![h] =
                            [@ EXCEPT !.taken = TRUE, !.at_take = dep[h].last]]
         ELSE /\ hpc' = [hpc EXCEPT ![h] = "wait"]
              /\ hloc' = [hloc EXCEPT ![h].held = @ \ {ValueMutex(h)}]
              /\ UNCHANGED <<cell, dep>>
    /\ UNCHANGED <<max_clients, client_id, streams, sem, spc, cur, conn, peer,
                   out, ppc, psf, nsends, now, added, client>>

\* Self::write_frame(socket, frame); an error leads to remove_client
WriteFrameIo(h, ok) ==
    /\ hpc[h] = "write"
    /\ IF ok /\ peer[h]
         THEN /\ out' = [out EXCEPT ![h] =
                           Append(@, Msg("Frame", <<>>, hloc[h].frame,
                                         hloc[h].last_frame))]
              /\ hpc' = [hpc EXCEPT ![h] = "get"]
              /\ hloc' = [hloc EXCEPT ![h].frame = NoFrame]
         ELSE /\ hpc' = [hpc EXCEPT ![h] = "remove"]
              /\ hloc' = [hloc EXCEPT ![h].frame = NoFrame]
              /\ UNCHANGED out
    /\ UNCHANGED <<max_clients, client_id, streams, cell, sem, spc, cur, conn,
                   peer, ppc, psf, nsends, now, added, client, dep>>

\* remove_client: self.streams.lock()
RemoveLock(h) ==
    /\ hpc[h] = "remove"
    /\ StreamsMutex \notin Locked
    /\ hpc' = [hpc EXCEPT ![h] = "remove_locked"]
    /\ hloc' = [hloc EXCEPT ![h].held = @ \cup {StreamsMutex}]
    /\ UNCHANGED <<max_clients, client_id, streams, cell, sem, spc, cur, conn,
                   peer, out, ppc, psf, nsends, now, added, client, dep>>

\* remove_client under the lock, the guard dropped with the if let; break
RemoveClient(h) ==
    /\ hpc[h] = "remove_locked"
    /\ streams' = remove_client(streams, hloc[h].stream_id, hloc[h].client_id)
    /\ hpc' = [hpc EXCEPT ![h] = "returned"]
    /\ hloc' = [hloc EXCEPT ![h].result = "Ok", ![h].held = @ \ {StreamsMutex}]
    /\ UNCHANGED <<max_clients, client_id, cell, sem, spc, cur, conn, peer,
                   out, ppc, psf, nsends, now, added, client, dep>>

\* send_frame: the size checks, then let streams = self.streams.lock()
SendFrameLock(p, stream_id, meta_len, data_len) ==
    /\ ppc[p] = "idle"
    /\ nsends' = nsends + 1
    /\ LET r == SendFrameCheck(streams, stream_id, meta_len, data_len)
           large == r \in {"FrameMetaDataTooLarge", "FrameDataTooLarge"}
       IN /\ ~large => StreamsMutex \notin Locked
          /\ psf' = [psf EXCEPT ![p] =
                       [NoCall EXCEPT !.stream_id = stream_id,
                                      !.meta_len = meta_len,
                                      !.data_len = data_len,
                                      !.frame = [by |-> p, seq |-> nsends + 1],
                                      !.result = IF large THEN r ELSE "none",
                                      !.held = IF large THEN {} ELSE {StreamsMutex}]]
          /\ ppc' = [ppc EXCEPT ![p] = IF large THEN "ret" ELSE "snapshot"]
    /\ UNCHANGED <<max_clients, client_id, streams, cell, sem, spc, cur, conn,
                   peer, out, hpc, hloc, now, added, client, dep>>

\* a send_frame whose guard lives to the end of the function
SendFrameSnapshotKeepLock(p) ==
    /\ ppc[p] = "snapshot"
    /\ LET ok == HasStream(streams, psf[p].stream_id)
           clients == IF ok THEN MapValues(VecGet(streams, psf[p].stream_id).clients)
                      ELSE <<>>
       IN /\ psf' = [psf EXCEPT
                       ![p].clients = clients,
                       ![p].result = IF ~ok THEN "InvalidStream"
                                     ELSE IF clients = <<>> THEN "Ok" ELSE "none",
                       ![p].registered = Range(clients),
                       ![p].nstreams = VecLen(streams)]
          /\ ppc' = [ppc EXCEPT ![p] = IF clients # <<>> THEN "set" ELSE "ret"]
    /\ UNCHANGED <<max_clients, client_id, streams, cell, sem, spc, cur, conn,
                   peer, out, hpc, hloc, nsends, now, added, client, dep>>

\* send_frame under the lock: the lookup and the snapshot of the stream's
\* cells; the guard is dropped at the end of the block (or at return Err)
SendFrameSnapshot(p) ==
    /\ ppc[p] = "snapshot"
    /\ LET ok == HasStream(streams, psf[p].stream_id)
           clients == IF ok THEN MapValues(VecGet(streams, psf[p].stream_id).clients)
                      ELSE <<>>
       IN /\ psf' = [psf EXCEPT
                       ![p].clients = clients,
                       ![p].result = IF ~ok THEN "InvalidStream"
                                     ELSE IF clients = <<>> THEN "Ok" ELSE "none",
                       ![p].registered = Range(clients),
                       ![p].nstreams = VecLen(streams),
                       ![p].held = @ \ {StreamsMutex}]
          /\ ppc' = [ppc EXCEPT ![p] = IF clients # <<>> THEN "set" ELSE "ret"]
    /\ UNCHANGED <<max_clients, client_id, streams, cell, sem, spc, cur, conn,
                   peer, out, hpc, hloc, nsends, now, added, client, dep>>

\* FrameCell::set: let mut value = self.inner.value.lock()
SetLock(p) ==
    /\ ppc[p] = "set"
    /\ ValueMutex(Head(psf[p].clients)) \notin Locked
    /\ ppc' = [ppc EXCEPT ![p] = "set_locked"]
    /\ psf' = [psf EXCEPT ![p].held = @ \cup {ValueMutex(Head(psf[p].clients))}]
    /\ UNCHANGED <<max_clients, client_id, streams, cell, sem, spc, cur, conn,
                   peer, out, hpc, hloc, nsends, now, added, client, dep>>

\* FrameCell::set under the lock: the store, notify_one, the guard dropped at
\* the return; the next iteration of the loop of send_frame, or its Ok(())
SetStore(p) ==
    /\ ppc[p] = "set_locked"
    /\ LET c == Head(psf[p].clients)
           rest == Tail(psf[p].clients)
       IN /\ cell' = [cell EXCEPT ![c] = FrameCellSet(@, psf[p].frame)]
          /\ hpc' = NotifyOne(hpc, c)
          /\ psf' = [psf EXCEPT ![p].clients = rest,
                                ![p].deposited = @ \cup {c},
                                ![p].result = IF rest = <<>> THEN "Ok" ELSE "none",
                                ![p].held = @ \ {ValueMutex(c)}]
          /\ ppc' = [ppc EXCEPT ![p] = IF rest = <<>> THEN "ret" ELSE "set"]
          /\ dep' = [dep EXCEPT ![c] = [@ EXCEPT !.last = psf[p].frame,
                                                 !.taken = FALSE]]
    /\ UNCHANGED <<max_clients, client_id, streams, sem, spc, cur, conn, peer,
                   out, hloc, nsends, now, added, client>>

\* every step of handler thread h, lock by lock
HandlerLocks(h, Sids, Fpss) ==
    \/ GreetLock(h)
    \/ GreetCount(h)
    \/ \E ok \in BOOLEAN : GreetWrite(h, ok)
    \/ \E ok \in BOOLEAN, sid \in Sids, fps \in Fpss : HReadSelect(h, ok, sid, fps)
    \/ InfoLock(h)
    \/ InfoPack(h)
    \/ \E ok \in BOOLEAN : HWriteInfo(h, ok)
    \/ HAlloc(h)
    \/ AddClientLock(h)
    \/ AddClientInsert(h)
    \/ GetLock(h)
    \/ GetCheck(h)
    \/ WakeLock(h)
    \/ WakeCheck(h)
    \/ HNow(h)
    \/ \E ok \in BOOLEAN : WriteFrameIo(h, ok)
    \/ RemoveLock(h)
    \/ RemoveClient(h)
    \/ HExit(h)

\* send_frame called by the producers P, lock by lock
SendLocks(P, Sids, MetaLens, DataLens, max) ==
    \/ /\ nsends < max
       /\ \E p \in P, sid \in Sids, ml \in MetaLens, dl \in DataLens :
             SendFrameLock(p, sid, ml, dl)
    \/ \E p \in P : SendFrameSnapshot(p)
    \/ \E p \in P : SetLock(p)
    \/ \E p \in P : SetStore(p)
    \/ \E p \in P : SendFrameReturn(p)

\* ------------------------------------------------------------ Frame codec
\* Frame { metadata: Option<Arc<Vec<u8>>>, data: Arc<Vec<u8>> }
None == [some |-> FALSE, bytes |-> <<>>]
Some(bytes) == [some |-> TRUE, bytes |-> bytes]
Frame(metadata, data) == [metadata |-> metadata, data |-> data]

\* v.len() of a byte vector the model can hold
SizeOf(bytes) == Size(0, Len(bytes))

\* a write_frame that writes no metadata_len when there is no metadata
write_frameNoLenForNone(frame) ==
    (IF frame.metadata.some
     THEN <<LE32(SizeOf(frame.metadata.bytes)), frame.metadata.bytes>> ELSE <<>>)
    \o <<LE32(SizeOf(frame.data)), frame.data>>

\* the write_all calls of write_frame, in order: metadata_len (0 for None),
\* the metadata if there is one, data_len, the data
write_frame(frame) ==
    <<LE32(IF frame.metadata.some THEN SizeOf(frame.metadata.bytes) ELSE Size(0, 0))>>
    \o (IF frame.metadata.some THEN <<frame.metadata.bytes>> ELSE <<>>)
    \o <<LE32(SizeOf(frame.data)), frame.data>>

RECURSIVE Concat(_)
Concat(pieces) ==
    IF pieces = <<>> THEN <<>> ELSE Head(pieces) \o Concat(Tail(pieces))

\* u32::from_le_bytes
FromLE32(b) == Size(b[3] + 256 * b[4], b[1] + 256 * b[2])

\* the bytes are there for read_exact of n bytes
Has(bytes, n) == n.hi = 0 /\ n.lo <= Len(bytes)
Drop(bytes, k) == SubSeq(bytes, k + 1, Len(bytes))

\* Client::next on the bytes that have arrived: metadata_len, the metadata if
\* the length is not 0 (None otherwise), data_len, the data.  ok is FALSE when
\* a read_exact finds too few bytes.
ClientRead(bytes) ==
    IF ~Has(bytes, Size(0, 4)) THEN [ok |-> FALSE]
    ELSE LET mlen == FromLE32(SubSeq(bytes, 1, 4))
             b1 == Drop(bytes, 4)
         IN IF Gt(mlen, Size(0, 0)) /\ ~Has(b1, mlen) THEN [ok |-> FALSE]
            ELSE LET metadata == IF Gt(mlen, Size(0, 0))
                                 THEN Some(SubSeq(b1, 1, mlen.lo)) ELSE None
                     b2 == Drop(b1, mlen.lo)
                 IN IF ~Has(b2, Size(0, 4)) THEN [ok |-> FALSE]
                    ELSE LET dlen == FromLE32(SubSeq(b2, 1, 4))
                             b3 == Drop(b2, 4)
                         IN IF ~Has(b3, dlen) THEN [ok |-> FALSE]
                            ELSE [ok |-> TRUE,
                                  frame |-> Frame(metadata, SubSeq(b3, 1, dlen.lo)),
                                  rest |-> Drop(b3, dlen.lo)]

\* Self::write_frame(socket, frame) of the handler serving the client: the
\* first k write_all calls succeed; when one fails (write_all of an empty
\* buffer cannot) the handler ends and the socket is closed
WriteFrame(frame, k) ==
    /\ client.open
    /\ k \in 0..Len(write_frame(frame))
    /\ k < Len(write_frame(frame)) => write_frame(frame)[k + 1] # <<>>
    /\ client' = [client EXCEPT
                    !.wire = @ \o Concat(SubSeq(write_frame(frame), 1, k)),
                    !.sent = IF k = Len(write_frame(frame))
                             THEN Append(@, frame) ELSE @,
                    !.open = (k = Len(write_frame(frame)))]
    /\ UNCHANGED <<max_clients, client_id, streams, cell, sem, spc, cur, conn,
                   peer, out, hpc, hloc, ppc, psf, nsends, now, added, dep>>

\* Option<Result<Frame, Error>>: Some(Ok(frame)) or Some(Err(kind))
NoItem == Frame(None, <<>>)
Item(kind, frame) == [kind |-> kind, frame |-> frame]

\* the server's end of the client's connection is open
PeerOpen ==
    client.open /\ (client.foreign \/ hpc[1] \notin {"none", "returned", "exited"})

\* the error of a read_exact that does not get its bytes: end of file when the
\* peer has closed, else the timeout (an Io error of the blocking socket, the
\* Elapsed of tokio::time::timeout)
Starved == IF client.async /\ PeerOpen THEN "AsyncTimeout" ELSE "Io"

\* a next that reads a frame without looking at ready
ClientNextNoReadyCheck ==
    /\ client.cpc = "connected"
    /\ ~client.async
    /\ LET r == ClientRead(client.wire)
       IN IF r.ok
          THEN client' = [client EXCEPT !.got = Append(@, Item("Frame", r.frame)),
                                        !.wire = r.rest]
          ELSE client' = [client EXCEPT !.got = Append(@, Item("Io", NoItem)),
                                        !.wire = <<>>]
    /\ UNCHANGED <<max_clients, client_id, streams, cell, sem, spc, cur, conn,
                   peer, out, hpc, hloc, ppc, psf, nsends, now, added, dep>>

\* <Client as Iterator>::next: NotReady before select_stream; a frame when its
\* bytes have arrived; an Io error (timeout, or end of file on a closed
\* socket) when they have not, the bytes read so far being consumed
ClientNext ==
    /\ client.cpc = "connected"
    /\ ~client.async
    /\ LET r == ClientRead(client.wire)
       IN IF ~client.ready
          THEN client' = [client EXCEPT !.got = Append(@, Item("NotReady", NoItem))]
          ELSE IF r.ok
          THEN client' = [client EXCEPT !.got = Append(@, Item("Frame", r.frame)),
                                        !.wire = r.rest]
          ELSE client' = [client EXCEPT !.got = Append(@, Item("Io", NoItem)),
                                        !.wire = <<>>]
    /\ UNCHANGED <<max_clients, client_id, streams, cell, sem, spc, cur, conn,
                   peer, out, hpc, hloc, ppc, psf, nsends, now, added, dep>>

\* ClientAsync::read_next: as next, and one byte written to the server after
\* each frame; wok is the outcome of that write
read_next(wok) ==
    /\ client.cpc = "connected"
    /\ client.async
    /\ LET r == ClientRead(client.wire)
       IN IF ~client.ready
          THEN client' = [client EXCEPT !.got = Append(@, Item("NotReady", NoItem))]
          ELSE IF ~r.ok
          THEN client' = [client EXCEPT !.got = Append(@, Item(Starved, NoItem)),
                                        !.wire = <<>>]
          ELSE IF wok
          THEN client' = [client EXCEPT !.got = Append(@, Item("Frame", r.frame)),
                                        !.wire = r.rest,
                                        !.req = @ \o <<0>>]
          ELSE client' = [client EXCEPT !.got = Append(@, Item("Io", NoItem)),
                                        !.wire = r.rest]
    /\ UNCHANGED <<max_clients, client_id, streams, cell, sem, spc, cur, conn,
                   peer, out, hpc, hloc, ppc, psf, nsends, now, added, dep>>

\* -------------------------------------------------------- client handshake
\* u16::from_le_bytes
FromLE16(b) == b[1] + 256 * b[2]

\* Greetings::read: magic b"R", api_version: u8, streams_available: u16
GreetingsRead(b) ==
    IF b[1] # 82
    THEN [ok |-> FALSE, api_version |-> 0, streams_available |-> 0]
    ELSE [ok |-> TRUE, api_version |-> b[2],
          streams_available |-> FromLE16(SubSeq(b, 3, 4))]

\* BinWrite of StreamSelect { stream_id: u16, max_fps: u8 }
StreamSelectWrite(stream_id, max_fps) == LE16(stream_id) \o <<max_fps>>

\* StreamSelect::read
StreamSelectRead(b) == [stream_id |-> FromLE16(SubSeq(b, 1, 2)), max_fps |-> b[3]]

\* StreamInfo::read: id: u16, format: Format (repr u8), width: u16, height: u16
StreamInfoRead(b) ==
    [ok |-> b[3] \in Formats,
     info |-> [id |-> FromLE16(SubSeq(b, 1, 2)), format |-> b[3],
               width |-> FromLE16(SubSeq(b, 4, 5)),
               height |-> FromLE16(SubSeq(b, 6, 7))]]

Result(kind, v) == [kind |-> kind, v |-> v]

\* the bytes a handler wrote to its socket arrive at the client
Deliver ==
    /\ ~client.foreign
    /\ client.dlv < Len(out[1])
    /\ client' = [client EXCEPT !.wire = @ \o out[1][client.dlv + 1].bytes,
                                !.dlv = @ + 1]
    /\ UNCHANGED <<max_clients, client_id, streams, cell, sem, spc, cur, conn,
                   peer, out, hpc, hloc, ppc, psf, nsends, now, added, dep>>

\* a connect that accepts every api_version
ConnectResultAnyVersion(b) ==
    IF ~GreetingsRead(b).ok THEN Result("Decode", 0)
    ELSE Result("Ok", 0)

\* what connect returns for the greeting b it read: the error of
\* Greetings::read, ApiVersion(v) for a version that is not API_VERSION, Ok
ConnectResult(b) ==
    IF ~GreetingsRead(b).ok THEN Result("Decode", 0)
    ELSE IF GreetingsRead(b).api_version # API_VERSION
    THEN Result("ApiVersion", GreetingsRead(b).api_version)
    ELSE Result("Ok", 0)

\* Client::connect and ClientAsync::connect once the TCP connection is made:
\* read_exact of the 4 bytes of the greeting, Greetings::read, the version
\* check.  Ok(Self { ready: false, .. }) or the error; on an error the stream
\* is dropped, which closes the connection.
connect ==
    /\ client.cpc = "connecting"
    /\ LET enough == Len(client.wire) >= 4
           b == SubSeq(client.wire, 1, 4)
           res == IF enough THEN ConnectResult(b) ELSE Result(Starved, 0)
       IN /\ client' = [client EXCEPT
                          !.wire = IF enough THEN Drop(@, 4) ELSE <<>>,
                          !.greet = IF enough THEN b ELSE <<>>,
                          !.cres = res,
                          !.cpc = IF res.kind = "Ok" THEN "connected" ELSE "failed",
                          !.streams_available =
                              IF res.kind = "Ok"
                              THEN GreetingsRead(b).streams_available ELSE @,
                          !.ready = FALSE]
          /\ peer' = IF res.kind = "Ok" \/ client.foreign
                     THEN peer ELSE [peer EXCEPT ![1] = FALSE]
    /\ UNCHANGED <<max_clients, client_id, streams, cell, sem, spc, cur, conn,
                   out, hpc, hloc, ppc, psf, nsends, now, added, dep>>

\* select_stream up to its read: the StreamSelect is packed and written; ok is
\* the outcome of write_all
select_stream_write(stream_id, max_fps, ok) ==
    /\ client.cpc = "connected"
    /\ IF ok
         THEN client' = [client EXCEPT
                           !.req = @ \o StreamSelectWrite(stream_id, max_fps),
                           !.selw = @ \o StreamSelectWrite(stream_id, max_fps),
                           !.sres = [stream_id |-> stream_id, max_fps |-> max_fps,
                                     kind |-> "pending", info |-> NoInfo],
                           !.nsel = @ + 1,
                           !.cpc = "selecting"]
         ELSE client' = [client EXCEPT
                           !.sres = [stream_id |-> stream_id, max_fps |-> max_fps,
                                     kind |-> "Io", info |-> NoInfo],
                           !.nsel = @ + 1]
    /\ UNCHANGED <<max_clients, client_id, streams, cell, sem, spc, cur, conn,
                   peer, out, hpc, hloc, ppc, psf, nsends, now, added, dep>>

\* a select_stream that does not compare the ids
SelectResultNoCompare(b, stream_id) ==
    IF ~StreamInfoRead(b).ok THEN "Decode"
    ELSE "Ok"

\* what select_stream returns for the StreamInfo b it read: the error of
\* StreamInfo::read, Ok when the id is the one asked for, else InvalidStream
SelectResult(b, stream_id) ==
    IF ~StreamInfoRead(b).ok THEN "Decode"
    ELSE IF StreamInfoRead(b).info.id = stream_id THEN "Ok"
    ELSE "InvalidStream"

\* a select_stream that stores the outcome of the comparison in ready
select_stream_readResets ==
    /\ client.cpc = "selecting"
    /\ LET enough == Len(client.wire) >= 7
           b == SubSeq(client.wire, 1, 7)
           kind == IF enough THEN SelectResult(b, client.sres.stream_id)
                   ELSE Starved
       IN client' = [client EXCEPT
                       !.wire = IF enough THEN Drop(@, 7) ELSE <<>>,
                       !.cpc = "connected",
                       !.ready = (kind = "Ok"),
                       !.sres.kind = kind,
                       !.sres.info = IF enough /\ StreamInfoRead(b).ok
                                     THEN StreamInfoRead(b).info ELSE NoInfo]
    /\ UNCHANGED <<max_clients, client_id, streams, cell, sem, spc, cur, conn,
                   peer, out, hpc, hloc, ppc, psf, nsends, now, added, dep>>

\* select_stream from its read: read_exact of the 7 bytes of the StreamInfo,
\* StreamInfo::read, the comparison of the ids; ready is set on Ok only
select_stream_read ==
    /\ client.cpc = "selecting"
    /\ LET enough == Len(client.wire) >= 7
           b == SubSeq(client.wire, 1, 7)
           kind == IF enough THEN SelectResult(b, client.sres.stream_id)
                   ELSE Starved
       IN client' = [client EXCEPT
                       !.wire = IF enough THEN Drop(@, 7) ELSE <<>>,
                       !.cpc = "connected",
                       !.ready = IF kind = "Ok" THEN TRUE ELSE @,
                       !.sres.kind = kind,
                       !.sres.info = IF enough /\ StreamInfoRead(b).ok
                                     THEN StreamInfoRead(b).info ELSE NoInfo]
    /\ UNCHANGED <<max_clients, client_id, streams, cell, sem, spc, cur, conn,
                   peer, out, hpc, hloc, ppc, psf, nsends, now, added, dep>>

\* ------------------------------------------------------------------- Spec
\* every step of handler thread h; Oks are the outcomes the handshake I/O may
\* have, Sids and Fpss what the client may send in its StreamSelect
Handler(h, Oks, Sids, Fpss) ==
    \/ \E ok \in Oks : HGreet(h, ok)
    \/ \E ok \in Oks, sid \in Sids, fps \in Fpss : HReadSelect(h, ok, sid, fps)
    \/ HStreamInfo(h)
    \/ \E ok \in Oks : HWriteInfo(h, ok)
    \/ HAlloc(h)
    \/ HAddClient(h)
    \/ HGet(h)
    \/ HWake(h)
    \/ HNow(h)
    \/ \E ok \in BOOLEAN : HWrite(h, ok)
    \/ HExit(h)

\* the accept loop of serve() and the clients connecting to it
Serve(C) ==
    \/ \E h \in C : ClientConnect(h)
    \/ \E h \in C : ClientDisconnect(h)
    \/ \E h \in C : Accept(h)
    \/ Acquire
    \/ Spawn

\* send_frame called by the producers P
Send(P, Sids, MetaLens, DataLens, max) ==
    \/ /\ nsends < max
       /\ \E p \in P, sid \in Sids, ml \in MetaLens, dl \in DataLens :
             SendFrameCall(p, sid, ml, dl)
    \/ \E p \in P : SendFrameSet(p)
    \/ \E p \in P : SendFrameReturn(p)

\* The server from its construction: set_max_clients, add_stream, serve, the
\* connections and one producer.
Next ==
    \/ \E n \in MaxClientsIn : SetMaxClients(n)
    \/ /\ added.calls < 1
       /\ \E f \in FormatIn, w \in WidthIn, ht \in HeightIn : AddStream(f, w, ht)
    \/ ServeStart
    \/ Serve(Conns)
    \/ \E h \in Conns : Handler(h, BOOLEAN, StreamIdIn, {0, 1})
    \/ Send({"p1"}, {0}, MetaLenIn, DataLenIn, FanSends - 1)

Spec == Init /\ [][Next]_vars

\* the steps of handler h once the handshake is done
Streaming(h) ==
    \/ HAlloc(h)
    \/ HAddClient(h)
    \/ HGet(h)
    \/ HWake(h)
    \/ HNow(h)
    \/ \E ok \in BOOLEAN : HWrite(h, ok)
    \/ HExit(h)

\* a server with n streams, serve() in its accept loop with the default
\* capacity, every connection of C admitted in a handshake that chose one of
\* the streams Sids and one of the rates Fpss (Greeting and StreamInfo are
\* written, the handlers are about to take their client ids), no other
\* connection made, nothing sent yet
AllAdmitted(C, n, Sids, Fpss) ==
    /\ max_clients = DEFAULT_MAX_CLIENTS
    /\ streams = Registry(n)
    /\ added = [calls |-> 0, nok |-> n, last |-> "Ok", id |-> n - 1]
    /\ sem = [permissions |-> Cardinality(C), capacity |-> DEFAULT_MAX_CLIENTS]
    /\ spc = "accept"
    /\ cur = 0
    /\ client_id = 0
    /\ cell = [h \in Conns |-> FrameValueDefault]
    /\ conn = [h \in Conns |-> IF h \in C THEN "accepted" ELSE "none"]
    /\ peer = [h \in Conns |-> h \in C]
    /\ hpc = [h \in Conns |-> IF h \in C THEN "alloc" ELSE "none"]
    /\ \E sel \in [C -> Sids \X Fpss] :
          /\ hloc = [h \in Conns |->
                       IF h \in C
                       THEN [NoLocals EXCEPT !.stream_id = sel[h][1],
                                             !.max_fps = sel[h][2]]
                       ELSE NoLocals]
          /\ out = [h \in Conns |->
                      IF h \in C
                      THEN <<Msg("Greeting", greetings(streams), NoFrame, NoTime),
                             Msg("StreamInfo",
                                 stream_info_packed(streams, sel[h][1]),
                                 NoFrame, NoTime)>>
                      ELSE <<>>]
    /\ ppc = [p \in Producers |-> "idle"]
    /\ psf = [p \in Producers |-> NoCall]
    /\ nsends = 0
    /\ now = 0
    /\ dep = [h \in Conns |-> NoDeposit]

\* Fan-out: two streams, one producer, the admitted clients register, stream
\* and leave while frames are sent.
FanConns == {1, 2}

InitFanout == AllAdmitted(FanConns, 2, {0, 1}, {2}) /\ client = NoClient

NextFanout ==
    \/ \E h \in FanConns : ClientDisconnect(h)
    \/ \E h \in FanConns : Streaming(h)
    \/ Send({"p1"}, {0, 1}, MetaLenIn, DataLenIn, FanSends)
    \/ now < MaxTime - 1 /\ Tick

SpecFanout == InitFanout /\ [][NextFanout]_vars

\* One streaming client of one stream, rate 1 or 2 frames per second, and two
\* producers.
InitStream == AllAdmitted({1}, 1, {0}, {1, 2}) /\ client = NoClient

NextStream ==
    \/ ClientDisconnect(1)
    \/ Streaming(1)
    \/ Send(Producers, {0}, MetaLenIn, DataLenIn, MaxSends)
    \/ now < MaxTime /\ Tick

SpecStream == InitStream /\ [][NextStream]_vars

\* the handler thread is scheduled: a step it can take is taken.  The
\* producers and the clock are free to stop.
SpecStreamFair == SpecStream /\ WF_vars(Streaming(1))

\* send_frame with sizes around its limits and an unregistered stream id, the
\* stream with and without a subscriber.
InitSend == AllAdmitted({1}, 1, {0}, {2}) /\ client = NoClient

NextSend ==
    \/ ClientDisconnect(1)
    \/ Streaming(1)
    \/ Send({"p1"}, {0, 1}, MetaLenAll, DataLenAll, FanSends)
    \/ now < MaxTime - 1 /\ Tick

SpecSend == InitSend /\ [][NextSend]_vars

\* Shutdown: one streaming client, a producer, and close() applied to the
\* registered cells at any moment.
InitShutdown == AllAdmitted({1}, 1, {0}, {2}) /\ client = NoClient

NextShutdown ==
    \/ ClientDisconnect(1)
    \/ Streaming(1)
    \/ Send({"p1"}, {0}, MetaLenIn, DataLenIn, FanSends)
    \/ now < MaxTime - 1 /\ Tick
    \/ DropClose

SpecShutdown == InitShutdown /\ [][NextShutdown]_vars

\* the handler thread is scheduled: a step it can take is taken
SpecShutdownFair == SpecShutdown /\ WF_vars(Streaming(1))

\* Frame codec: the handler of an admitted client writes frames, the client,
\* Ready after its select_stream, reads them.
ByteIn == {0, 255}
BlobIn == UNION {[1..n -> ByteIn] : n \in 0..MaxBlob}
FrameIn == {Frame(m, d) : m \in {None} \cup {Some(b) : b \in BlobIn}, d \in BlobIn}

InitCodec ==
    /\ AllAdmitted({1}, 1, {0}, {2})
    /\ client = [NoClient EXCEPT !.ready = TRUE, !.open = TRUE,
                                  !.cpc = "connected"]

NextCodec ==
    \/ /\ Len(client.sent) < MaxFrames
       /\ \E f \in FrameIn, k \in 0..4 : WriteFrame(f, k)
    \/ Len(client.got) < MaxFrames /\ ClientNext

SpecCodec == InitCodec /\ [][NextCodec]_vars

\* Client: a blocking or an async client whose TCP connection was accepted by
\* a server with two streams and handed to a handler, or was made to a peer
\* that is not this server and has written what it writes.
RegistryClient ==
    Vec(0, <<StreamInternal(Luma8, 4, 2), StreamInternal(MJpeg, 2, 258)>>)

\* what a peer that is not this server writes: a greeting (this server's, one
\* of api_version 2, one of another magic, a short one), a StreamInfo (of id
\* 0, of id 1, of no Format, none) and frame bytes or none
ForeignGreetIn == {<<82, 1, 2, 0>>, <<82, 2, 0, 0>>, <<83, 1, 2, 0>>, <<82, 1>>}
ForeignInfoIn == {<<0, 0, 0, 4, 0, 2, 0>>, <<1, 0, 64, 2, 0, 2, 1>>,
                  <<0, 0, 9, 4, 0, 2, 0>>, <<>>}
ForeignTailIn == {<<>>, <<0, 0, 0, 0, 1, 0, 0, 0, 255>>}
\* the frames the handler writes to the client
ClientFrameIn == {Frame(None, <<255>>), Frame(Some(<<0>>), <<>>)}

InitClient ==
    /\ max_clients = DEFAULT_MAX_CLIENTS
    /\ streams = RegistryClient
    /\ added = [calls |-> 0, nok |-> 2, last |-> "Ok", id |-> 1]
    /\ spc = "accept"
    /\ cur = 0
    /\ client_id = 0
    /\ cell = [h \in Conns |-> FrameValueDefault]
    /\ out = [h \in Conns |-> <<>>]
    /\ hloc = [h \in Conns |-> NoLocals]
    /\ ppc = [p \in Producers |-> "idle"]
    /\ psf = [p \in Producers |-> NoCall]
    /\ nsends = 0
    /\ now = 0
    /\ dep = [h \in Conns |-> NoDeposit]
    /\ \E a \in BOOLEAN :
          \/ /\ sem = [permissions |-> 1, capacity |-> DEFAULT_MAX_CLIENTS]
             /\ conn = [h \in Conns |-> IF h = 1 THEN "accepted" ELSE "none"]
             /\ peer = [h \in Conns |-> h = 1]
             /\ hpc = [h \in Conns |-> IF h = 1 THEN "greet" ELSE "none"]
             /\ client = [NoClient EXCEPT !.async = a, !.open = TRUE,
                                          !.cpc = "connecting"]
          \/ /\ sem = [permissions |-> 0, capacity |-> DEFAULT_MAX_CLIENTS]
             /\ conn = [h \in Conns |-> "none"]
             /\ peer = [h \in Conns |-> FALSE]
             /\ hpc = [h \in Conns |-> "none"]
             /\ \E g \in ForeignGreetIn, i \in ForeignInfoIn, t \in ForeignTailIn,
                   o \in BOOLEAN :
                   client = [NoClient EXCEPT !.async = a, !.foreign = TRUE,
                                             !.open = o, !.cpc = "connecting",
                                             !.wire = g \o i \o t]

\* the handler reads the StreamSelect the client wrote, or its read fails
\* (timeout, end of file)
ReadsSelect(h) ==
    \/ /\ Len(client.req) >= 3
       /\ \E ok \in BOOLEAN :
             HReadSelect(h, ok, StreamSelectRead(SubSeq(client.req, 1, 3)).stream_id,
                         StreamSelectRead(SubSeq(client.req, 1, 3)).max_fps)
    \/ /\ Len(client.req) < 3
       /\ HReadSelect(h, FALSE, 0, 0)

NextClient ==
    \/ \E ok \in BOOLEAN : HGreet(1, ok)
    \/ ReadsSelect(1)
    \/ HStreamInfo(1)
    \/ \E ok \in BOOLEAN : HWriteInfo(1, ok)
    \/ Deliver
    \/ connect
    \/ /\ ~client.ready
       /\ client.nsel < MaxSelects
       /\ \E sid \in {0, 1, 2}, fps \in {1, 2}, ok \in BOOLEAN :
             select_stream_write(sid, fps, ok)
    \/ select_stream_read
    \/ Len(client.got) < MaxFrames /\ ClientNext
    \/ Len(client.got) < MaxFrames /\ \E wok \in BOOLEAN : read_next(wok)
    \/ /\ ~client.foreign
       /\ hpc[1] = "alloc"
       /\ client.dlv = Len(out[1])
       /\ Len(client.sent) < 1
       /\ \E f \in ClientFrameIn, k \in 0..4 : WriteFrame(f, k)

SpecClient == InitClient /\ [][NextClient]_vars

\* Readiness: the client of SpecClient, which may call select_stream again
\* after a select_stream that succeeded.  A peer that is not this server
\* greets as this server does and answers with a StreamInfo of id 0 or 1,
\* then with nothing, a frame, a second StreamInfo, or 7 bytes that are no
\* StreamInfo and a frame.
ReadyInfoIn == {<<0, 0, 0, 4, 0, 2, 0>>, <<1, 0, 64, 2, 0, 2, 1>>}
ReadyTailIn == {<<>>, <<0, 0, 0, 0, 1, 0, 0, 0, 255>>,
                <<1, 0, 64, 2, 0, 2, 1>>,
                <<0, 0, 9, 4, 0, 2, 0>> \o <<0, 0, 0, 0, 1, 0, 0, 0, 255>>}

InitReady ==
    /\ max_clients = DEFAULT_MAX_CLIENTS
    /\ streams = RegistryClient
    /\ added = [calls |-> 0, nok |-> 2, last |-> "Ok", id |-> 1]
    /\ spc = "accept"
    /\ cur = 0
    /\ client_id = 0
    /\ cell = [h \in Conns |-> FrameValueDefault]
    /\ out = [h \in Conns |-> <<>>]
    /\ hloc = [h \in Conns |-> NoLocals]
    /\ ppc = [p \in Producers |-> "idle"]
    /\ psf = [p \in Producers |-> NoCall]
    /\ nsends = 0
    /\ now = 0
    /\ dep = [h \in Conns |-> NoDeposit]
    /\ \E a \in BOOLEAN :
          \/ /\ sem = [permissions |-> 1, capacity |-> DEFAULT_MAX_CLIENTS]
             /\ conn = [h \in Conns |-> IF h = 1 THEN "accepted" ELSE "none"]
             /\ peer = [h \in Conns |-> h = 1]
             /\ hpc = [h \in Conns |-> IF h = 1 THEN "greet" ELSE "none"]
             /\ client = [NoClient EXCEPT !.async = a, !.open = TRUE,
                                          !.cpc = "connecting"]
          \/ /\ sem = [permissions |-> 0, capacity |-> DEFAULT_MAX_CLIENTS]
             /\ conn = [h \in Conns |-> "none"]
             /\ peer = [h \in Conns |-> FALSE]
             /\ hpc = [h \in Conns |-> "none"]
             /\ \E i \in ReadyInfoIn, t \in ReadyTailIn, o \in BOOLEAN :
                   client = [NoClient EXCEPT !.async = a, !.foreign = TRUE,
                                             !.open = o, !.cpc = "connecting",
                                             !.wire = <<82, 1, 2, 0>> \o i \o t]

NextReady ==
    \/ \E ok \in BOOLEAN : HGreet(1, ok)
    \/ ReadsSelect(1)
    \/ HStreamInfo(1)
    \/ \E ok \in BOOLEAN : HWriteInfo(1, ok)
    \/ Deliver
    \/ connect
    \/ /\ client.nsel < MaxSelects
       /\ \E sid \in {0, 1}, fps \in {1}, ok \in BOOLEAN :
             select_stream_write(sid, fps, ok)
    \/ select_stream_read
    \/ Len(client.got) < MaxFrames /\ ClientNext
    \/ Len(client.got) < MaxFrames /\ \E wok \in BOOLEAN : read_next(wok)
    \/ /\ ~client.foreign
       /\ hpc[1] = "alloc"
       /\ client.dlv = Len(out[1])
       /\ Len(client.sent) < 1
       /\ \E f \in ClientFrameIn, k \in 0..4 : WriteFrame(f, k)

SpecReady == InitReady /\ [][NextReady]_vars

\* Handshake timeout: a server with the socket timeouts of Server::new, one
\* accepted connection whose client may send its StreamSelect late or never,
\* and the clock.
InitTimeout ==
    /\ InitClient
    /\ ~client.foreign

\* a read_exact that waits for its bytes without a timeout
ReadsSelectNoTimeout(h) ==
    \/ /\ Len(client.req) >= 3
       /\ HReadSelect(h, TRUE, StreamSelectRead(SubSeq(client.req, 1, 3)).stream_id,
                      StreamSelectRead(SubSeq(client.req, 1, 3)).max_fps)
    \/ /\ Len(client.req) < 3
       /\ ~peer[h]
       /\ HReadSelect(h, FALSE, 0, 0)

\* socket.read_exact(stream_select_buf) on a socket with
\* set_read_timeout(Some(self.timeout)): it returns the bytes the client
\* wrote, or an error once the timeout has passed with the bytes missing or
\* the client has closed the connection
ReadsSelectTimed(h) ==
    \/ /\ Len(client.req) >= 3
       /\ HReadSelect(h, TRUE, StreamSelectRead(SubSeq(client.req, 1, 3)).stream_id,
                      StreamSelectRead(SubSeq(client.req, 1, 3)).max_fps)
    \/ /\ Len(client.req) < 3
       /\ ~peer[h] \/ now - hloc[h].read_at >= TimeoutTicks
       /\ HReadSelect(h, FALSE, 0, 0)

\* the steps of handler h with the timed read
HandlerTimed(h) ==
    \/ \E ok \in BOOLEAN : HGreet(h, ok)
    \/ ReadsSelectTimed(h)
    \/ HStreamInfo(h)
    \/ \E ok \in BOOLEAN : HWriteInfo(h, ok)
    \/ Streaming(h)

\* Instant::now() advances; the model follows the clock to the end of a
\* pending read timeout
TickTimed ==
    /\ \/ now < MaxTime
       \/ \E h \in Conns : hpc[h] = "select" /\ now - hloc[h].read_at < TimeoutTicks
    /\ Tick

NextTimeout ==
    \/ HandlerTimed(1)
    \/ TickTimed
    \/ Deliver
    \/ connect
    \/ /\ client.nsel < 1
       /\ \E sid \in {0, 2}, fps \in {1} : select_stream_write(sid, fps, TRUE)
    \/ select_stream_read
    \/ ClientDisconnect(1)
    \/ Send({"p1"}, {0}, MetaLenIn, DataLenIn, 1)

SpecTimeout == InitTimeout /\ [][NextTimeout]_vars

\* the handler thread is scheduled and time passes
SpecTimeoutFair == SpecTimeout /\ WF_vars(HandlerTimed(1)) /\ WF_vars(TickTimed)

\* Locks: two accepted connections whose handlers start, one stream, one
\* producer; every lock and unlock is a step.
InitLocks ==
    /\ max_clients = DEFAULT_MAX_CLIENTS
    /\ streams = Registry(1)
    /\ added = [calls |-> 0, nok |-> 1, last |-> "Ok", id |-> 0]
    /\ sem = [permissions |-> MaxConn, capacity |-> DEFAULT_MAX_CLIENTS]
    /\ spc = "accept"
    /\ cur = 0
    /\ client_id = 0
    /\ cell = [h \in Conns |-> FrameValueDefault]
    /\ conn = [h \in Conns |-> "accepted"]
    /\ peer = [h \in Conns |-> TRUE]
    /\ out = [h \in Conns |-> <<>>]
    /\ hpc = [h \in Conns |-> "greet"]
    /\ hloc = [h \in Conns |-> NoLocals]
    /\ ppc = [p \in Producers |-> "idle"]
    /\ psf = [p \in Producers |-> NoCall]
    /\ nsends = 0
    /\ now = 0
    /\ client = NoClient
    /\ dep = [h \in Conns |-> NoDeposit]

NextLocks ==
    \/ \E h \in Conns : HandlerLocks(h, {0, 1}, {2})
    \/ \E h \in Conns : ClientDisconnect(h)
    \/ SendLocks({"p1"}, {0, 1}, MetaLenIn, DataLenIn, FanSends)

SpecLocks == InitLocks /\ [][NextLocks]_vars

\* every handler thread is scheduled again and again, and a producer that
\* holds the lock of a cell inside set is scheduled to leave it
SpecLocksFair ==
    /\ SpecLocks
    /\ \A h \in Conns : WF_vars(HandlerLocks(h, {0, 1}, {2}))
    /\ \A p \in Producers : WF_vars(SetStore(p))

\* Permits: the server from its construction as in Spec, and close() applied
\* to the registered cells at any moment, so that a handler leaves on every
\* path it has.
NextPermits ==
    \/ Next
    \/ DropClose

SpecPermits == Init /\ [][NextPermits]_vars

\* add_client: two streams, the handlers about to call add_client with a
\* stream id that is registered or is not, ids 0 and 1 handed out; a producer
\* sends to both streams.
InitAddClient ==
    /\ max_clients = DEFAULT_MAX_CLIENTS
    /\ streams = Registry(2)
    /\ added = [calls |-> 0, nok |-> 2, last |-> "Ok", id |-> 1]
    /\ sem = [permissions |-> MaxConn, capacity |-> DEFAULT_MAX_CLIENTS]
    /\ spc = "accept"
    /\ cur = 0
    /\ client_id = MaxConn
    /\ cell = [h \in Conns |-> FrameValueDefault]
    /\ conn = [h \in Conns |-> "accepted"]
    /\ peer = [h \in Conns |-> TRUE]
    /\ out = [h \in Conns |-> <<>>]
    /\ hpc = [h \in Conns |-> "add"]
    /\ \E sel \in [Conns -> {0, 1, 2}] :
          hloc = [h \in Conns |-> [NoLocals EXCEPT !.stream_id = sel[h],
                                                   !.max_fps = 2,
                                                   !.client_id = h - 1]]
    /\ ppc = [p \in Producers |-> "idle"]
    /\ psf = [p \in Producers |-> NoCall]
    /\ nsends = 0
    /\ now = 0
    /\ client = NoClient
    /\ dep = [h \in Conns |-> NoDeposit]

NextAddClient ==
    \/ \E h \in Conns : ClientDisconnect(h)
    \/ \E h \in Conns : HAddClient(h)
    \/ \E h \in Conns : HGet(h)
    \/ \E h \in Conns : HWake(h)
    \/ \E h \in Conns : HNow(h)
    \/ \E h \in Conns, ok \in BOOLEAN : HWrite(h, ok)
    \/ \E h \in Conns : HExit(h)
    \/ Send({"p1"}, {0, 1}, MetaLenIn, DataLenIn, FanSends)

SpecAddClient == InitAddClient /\ [][NextAddClient]_vars

\* Registry limit: a server whose registry holds 0 streams, or is one
\* add_stream from full, or is full; add_stream is called, serve() starts and
\* greets one connection.
InitLimit ==
    /\ \E n \in {0, U16_MAX - 1, U16_MAX} :
          /\ streams = Vec(n, <<>>)
          /\ added = [calls |-> 0, nok |-> n, last |-> IF n = 0 THEN "none" ELSE "Ok",
                      id |-> IF n = 0 THEN 0 ELSE n - 1]
    /\ max_clients = DEFAULT_MAX_CLIENTS
    /\ sem = [permissions |-> 0, capacity |-> 0]
    /\ spc = "new"
    /\ client_id = 0
    /\ cell = [h \in Conns |-> FrameValueDefault]
    /\ cur = 0
    /\ conn = [h \in Conns |-> "none"]
    /\ peer = [h \in Conns |-> FALSE]
    /\ out = [h \in Conns |-> <<>>]
    /\ hpc = [h \in Conns |-> "none"]
    /\ hloc = [h \in Conns |-> NoLocals]
    /\ ppc = [p \in Producers |-> "idle"]
    /\ psf = [p \in Producers |-> NoCall]
    /\ nsends = 0
    /\ now = 0
    /\ client = NoClient
    /\ dep = [h \in Conns |-> NoDeposit]

NextLimit ==
    \/ /\ added.calls < MaxAddCalls
       /\ \E f \in Formats, w \in {4, 640}, ht \in {2, 480} : AddStream(f, w, ht)
    \/ ServeStart
    \/ ClientConnect(1)
    \/ Accept(1)
    \/ Acquire
    \/ Spawn
    \/ \E ok \in BOOLEAN : HGreet(1, ok)

SpecLimit == InitLimit /\ [][NextLimit]_vars


\* ----------------------------------------------------------------- claims
\* the Frame messages written to the socket of handler h, in order
FramesOut(h) == SelectSeq(out[h], LAMBDA m : m.kind = "Frame")

\* C1: once serve() runs, the handler threads that hold a permit (spawned and
\* not yet exited, plus the one the accept loop is about to spawn) are exactly
\* the permits taken, and these never exceed the capacity serve() read when it
\* started; a connection that was accepted while every permit is taken has no
\* handler and nothing written to it.
C1_CapacityGate ==
    spc # "new" =>
        /\ Cardinality({h \in Conns : hpc[h] \notin {"none", "exited"}})
              + (IF spc = "spawn" THEN 1 ELSE 0) = sem.permissions
        /\ sem.permissions <= sem.capacity
        /\ (spc = "acquire" /\ sem.permissions = sem.capacity)
              => (hpc[cur] = "none" /\ out[cur] = <<>>)

\* the gate is full: one handler holds the only permit and has greeted its
\* client, a second connection is accepted and waits ungreeted
C1_Witness ==
    /\ spc = "acquire"
    /\ sem.capacity = 1
    /\ sem.permissions = sem.capacity
    /\ out[cur] = <<>>
    /\ \E h \in Conns : hpc[h] \notin {"none", "exited"} /\ out[h] # <<>>

\* C2: send_frame never waits for a connection worker: whatever the workers
\* and their sockets do, a producer can start a call, every iteration of its
\* loop over the snapshot can be taken at once and shortens the snapshot, and
\* a finished call returns.  (No thread holds the registry lock or a cell lock
\* across a blocking operation, so each critical section is one step.)
C2_SendFrameNeverBlocks ==
    \A p \in Producers :
        /\ ppc[p] = "idle" => ENABLED SendFrameCall(p, 0, NoLen, Size(0, 24))
        /\ ppc[p] = "set" =>
              /\ psf[p].clients # <<>>
              /\ Len(psf[p].clients) <= MaxConn
              /\ ENABLED SendFrameSet(p)
        /\ ppc[p] = "ret" => ENABLED SendFrameReturn(p)

\* a producer is about to set a frame into the slot of a worker that is
\* blocked in its socket write, whose peer is gone and whose slot is not empty
C2_Witness ==
    \E p \in Producers :
        /\ ppc[p] = "set"
        /\ Head(psf[p].clients) = 1
        /\ hpc[1] = "write"
        /\ ~peer[1]
        /\ cell[1].current # NoFrame

\* C3: the slot of every cell holds the frame set last if no get has taken it
\* and nothing otherwise, a set is possible whether or not the slot is empty,
\* and the frame a worker took is the newest one set at the moment it took it.
C3_DropOldestSlot ==
    \A h \in Conns :
        /\ cell[h].current = IF dep[h].taken THEN NoFrame ELSE dep[h].last
        /\ hpc[h] \in {"now", "write"} =>
              (hloc[h].frame # NoFrame /\ hloc[h].frame = dep[h].at_take)
        /\ \A p \in Producers :
              (ppc[p] = "set" /\ Head(psf[p].clients) = h /\ cell[h].current # NoFrame)
                  => ENABLED SendFrameSet(p)

\* the worker writes frame 1 while the slot holds frame 3: frame 2 was
\* overwritten before any get took it
C3_Witness ==
    /\ hpc[1] = "write"
    /\ hloc[1].frame.seq = 1
    /\ cell[1].current.seq = 3

\* C4: on every socket the frames of one producer appear in the order of that
\* producer's calls and none of them twice.
C4_PerProducerOrder ==
    \A h \in Conns :
        \A i \in DOMAIN FramesOut(h), j \in DOMAIN FramesOut(h) :
            (i < j /\ FramesOut(h)[i].frame.by = FramesOut(h)[j].frame.by)
                => FramesOut(h)[i].frame.seq < FramesOut(h)[j].frame.seq

\* three frames on one socket, two of them of the same producer, and two
\* frames of different producers written against the order of their calls
C4_Witness ==
    /\ Len(FramesOut(1)) = 3
    /\ \E i \in 1..2 :
          /\ FramesOut(1)[i].frame.by # FramesOut(1)[i + 1].frame.by
          /\ FramesOut(1)[i].frame.seq > FramesOut(1)[i + 1].frame.seq

\* C5: the cells a send_frame call sets are cells that were registered on the
\* addressed stream when the call locked the registry; when the call returns
\* Ok they are all of them; a cell that holds the call's frame is one of them.
C5_SnapshotIsolation ==
    \A p \in Producers :
        ppc[p] # "idle" =>
            /\ psf[p].deposited \subseteq psf[p].registered
            /\ (ppc[p] = "ret" /\ psf[p].result = "Ok")
                  => psf[p].deposited = psf[p].registered
            /\ \A h \in Conns :
                  (cell[h].current = psf[p].frame \/ dep[h].last = psf[p].frame)
                      => h \in psf[p].registered

\* a call that found one cell and has set its frame returns Ok while a second
\* client has registered on the same stream after the snapshot was taken
C5_Witness ==
    \E p \in Producers, h \in Conns, g \in Conns :
        /\ ppc[p] = "ret"
        /\ psf[p].result = "Ok"
        /\ psf[p].registered = {h}
        /\ g # h
        /\ g \in Range(MapValues(VecGet(streams, psf[p].stream_id).clients))
        /\ cell[g].current = NoFrame

\* C6: with max_fps = F > 0 the send timestamps of the frames written to one
\* connection are at least 1/F seconds apart: the j-th frame after a frame is
\* written no earlier than j/F seconds after it.
C6_RateLimit ==
    \A h \in Conns :
        (hpc[h] \notin {"none", "exited"} /\ hloc[h].max_fps > 0) =>
            \A i \in DOMAIN FramesOut(h), j \in DOMAIN FramesOut(h) :
                i < j => (FramesOut(h)[j].ts - FramesOut(h)[i].ts) * hloc[h].max_fps
                            >= (j - i) * TicksPerSec

\* at one frame per second two frames are written one second apart and the
\* worker holds a third frame that the rate check is about to drop
C6_Witness ==
    /\ hloc[1].max_fps = 1
    /\ Len(FramesOut(1)) = 2
    /\ FramesOut(1)[2].ts - FramesOut(1)[1].ts = TicksPerSec
    /\ hpc[1] = "now"
    /\ Skip(hloc[1].last_frame, now, hloc[1].max_fps)


\* the frames the client's iterator has yielded, in order
Decoded == SelectSeq(client.got, LAMBDA r : r.kind = "Frame")

\* C7 as the claim states it: every frame the client decodes is equal to the
\* frame that was sent, metadata presence included.
C7_RoundTripIdentity ==
    \A i \in DOMAIN Decoded :
        i \in DOMAIN client.sent /\ Decoded[i].frame = client.sent[i]

\* C7 amended: the i-th frame the client decodes has the data bytes of the
\* i-th frame sent; its metadata is present with the same bytes when the sent
\* metadata is present and not empty, and absent when the sent metadata is
\* absent or present and empty.
C7_RoundTripUpToEmptyMetadata ==
    \A i \in DOMAIN Decoded :
        /\ i \in DOMAIN client.sent
        /\ Decoded[i].frame.data = client.sent[i].data
        /\ Decoded[i].frame.metadata =
              IF client.sent[i].metadata.some /\ client.sent[i].metadata.bytes # <<>>
              THEN client.sent[i].metadata
              ELSE None

\* a frame sent with present and empty metadata is decoded without metadata,
\* the next one, with metadata and data of two bytes, is decoded as sent
C7_Witness ==
    /\ Len(Decoded) = 2
    /\ client.sent[1].metadata = Some(<<>>)
    /\ Decoded[1].frame.metadata = None
    /\ Len(client.sent[2].metadata.bytes) = 2
    /\ Len(client.sent[2].data) = 2
    /\ Decoded[2].frame = client.sent[2]

\* C8: stream_count is the number of successful add_stream calls and the
\* k-th successful call (k = 0, 1, ...) returned k, so no id is returned twice
\* and none is skipped; format, width and height of a registered stream at
\* its position never change.
C8_DenseStreamIds ==
    /\ [](/\ stream_count(streams) = added.nok
          /\ (added.calls > 0 /\ added.last = "Ok") => added.id = added.nok - 1)
    /\ [][/\ streams'.head = streams.head
          /\ \A id \in streams.head..(stream_count(streams) - 1) :
                /\ id < stream_count(streams')
                /\ VecGet(streams', id).format = VecGet(streams, id).format
                /\ VecGet(streams', id).width = VecGet(streams, id).width
                /\ VecGet(streams', id).height = VecGet(streams, id).height]_vars

\* two add_stream calls on a new server: the second returned id 1 for a
\* stream that differs from stream 0
C8_Witness ==
    /\ added.calls = 2
    /\ added.last = "Ok"
    /\ added.id = 1
    /\ stream_count(streams) = 2
    /\ VecGet(streams, 0).format # VecGet(streams, 1).format

\* C9: the registry never holds more than 2^16 - 1 streams, every greeting
\* written carries a stream count that fits its u16 field, add_stream
\* succeeds and adds one stream while fewer than 65,535 exist, and with 65,535
\* it returns TooManyStreams and leaves the registry as it was.
C9_StreamLimit ==
    /\ [](/\ stream_count(streams) <= U16_MAX
          /\ greetings(streams) # Panic
          /\ \A h \in Conns : \A i \in DOMAIN out[h] :
                out[h][i].kind = "Greeting" =>
                    /\ Len(out[h][i].bytes) = 4
                    /\ out[h][i].bytes[3] + 256 * out[h][i].bytes[4]
                          <= stream_count(streams))
    /\ [][added'.calls = added.calls + 1 =>
              IF stream_count(streams) < U16_MAX
              THEN /\ added'.last = "Ok"
                   /\ stream_count(streams') = stream_count(streams) + 1
              ELSE /\ added'.last = "TooManyStreams"
                   /\ streams' = streams]_vars

\* the 65,535th stream was added, the next add_stream returned
\* TooManyStreams, and a client was greeted with streams_available = 65,535
C9_Witness ==
    /\ added.calls = 2
    /\ added.last = "TooManyStreams"
    /\ stream_count(streams) = U16_MAX
    /\ out[1] # <<>>
    /\ out[1][1].bytes = <<82, API_VERSION, 255, 255>>

\* C10: a send_frame call that has finished returned Ok exactly when the
\* metadata length (if there is metadata) and the data length are at most
\* 2^32 - 1 and the stream is registered, whatever the subscribers do;
\* otherwise it returned the error of the first failing check in the order
\* metadata, data, stream, has set no cell, and no cell holds its frame.
C10_SendFrameResult ==
    \A p \in Producers :
        ppc[p] = "ret" =>
            LET meta_ok == psf[p].meta_len = NoLen \/ ~Gt(psf[p].meta_len, U32_MAX)
                data_ok == ~Gt(psf[p].data_len, U32_MAX)
                stream_ok == psf[p].stream_id < psf[p].nstreams
            IN /\ psf[p].result = "Ok" <=> (meta_ok /\ data_ok /\ stream_ok)
               /\ ~meta_ok => psf[p].result = "FrameMetaDataTooLarge"
               /\ (meta_ok /\ ~data_ok) => psf[p].result = "FrameDataTooLarge"
               /\ (meta_ok /\ data_ok /\ ~stream_ok) => psf[p].result = "InvalidStream"
               /\ psf[p].result # "Ok" =>
                     /\ psf[p].deposited = {}
                     /\ \A h \in Conns : /\ cell[h].current # psf[p].frame
                                         /\ dep[h].last # psf[p].frame

\* a call with metadata and data of 2^32 bytes to a stream that does not
\* exist, while stream 0 has a subscriber: the metadata error is returned
C10_Witness ==
    \E p \in Producers :
        /\ ppc[p] = "ret"
        /\ psf[p].result = "FrameMetaDataTooLarge"
        /\ Gt(psf[p].data_len, U32_MAX)
        /\ psf[p].stream_id = 1
        /\ DOMAIN VecGet(streams, 0).clients # {}


\* the cells registered in some stream of the registry
Registered == Cells(streams)

\* C11: a handler is past the lookup of its StreamSelect only with a
\* registered stream id; a handler that ended with InvalidStream has written
\* nothing but the greeting, has registered no cell and got no frame, and can
\* release its permit at once.
C11_InvalidStreamSelection ==
    \A h \in Conns :
        /\ hpc[h] \in {"winfo", "alloc", "add", "get", "wait", "woken", "now", "write"}
              => hloc[h].stream_id < stream_count(streams)
        /\ hloc[h].result = "InvalidStream" =>
              /\ hpc[h] \in {"returned", "exited"}
              /\ \A i \in DOMAIN out[h] : out[h][i].kind = "Greeting"
              /\ h \notin Registered
              /\ dep[h] = NoDeposit
              /\ hpc[h] = "returned" => ENABLED HExit(h)

\* a server with one stream: a connection selected stream 1, got the greeting
\* only, its handler ended with InvalidStream and gave its permit back
C11_Witness ==
    \E h \in Conns :
        /\ stream_count(streams) = 1
        /\ hloc[h].result = "InvalidStream"
        /\ hpc[h] = "exited"
        /\ Len(out[h]) = 1
        /\ sem.permissions = 0


\* C16: a handler that decoded a StreamSelect with max_fps = 0 has either
\* rejected it, with no StreamInfo written for it, or goes on as a handler
\* without a rate limit; it does not end in a panic after the StreamInfo.
C16_ZeroFpsRejectedOrUnlimited ==
    \A h \in Conns :
        (/\ hloc[h].max_fps = 0
         /\ hpc[h] \in {"info", "winfo", "alloc", "add", "get", "wait", "woken",
                        "now", "write", "returned"})
            => \/ \A i \in DOMAIN out[h] : out[h][i].kind # "StreamInfo"
               \/ hloc[h].result # "Panic"


\* C20: the step in which a handler ends, with an error or after a failed
\* frame write, leaves the cell, the socket, the position and the locals of
\* every other connection as they were, leaves the accept loop and the permits
\* as they were, and changes the registry at most by removing the handler's
\* own client id from its stream; the step in which it gives its permit back
\* changes nothing else.
C20_ErrorIsolation ==
    [][\A h \in Conns :
          /\ (hpc[h] # "returned" /\ hpc'[h] = "returned") =>
                /\ \A g \in Conns \ {h} :
                      /\ cell'[g] = cell[g]
                      /\ out'[g] = out[g]
                      /\ hpc'[g] = hpc[g]
                      /\ hloc'[g] = hloc[g]
                /\ peer' = peer /\ conn' = conn
                /\ spc' = spc /\ cur' = cur /\ sem' = sem
                /\ \/ streams' = streams
                   \/ /\ hloc[h].stream_id < stream_count(streams)
                      /\ streams' = [streams EXCEPT
                            !.vec[hloc[h].stream_id - streams.head + 1].clients =
                                [k \in DOMAIN @ \ {hloc[h].client_id} |-> @[k]]]
          /\ (hpc[h] = "returned" /\ hpc'[h] = "exited") =>
                /\ \A g \in Conns \ {h} :
                      /\ cell'[g] = cell[g]
                      /\ out'[g] = out[g]
                      /\ hpc'[g] = hpc[g]
                /\ spc' = spc /\ streams' = streams
                /\ sem'.permissions = sem.permissions - 1]_vars

\* the handler of one client ended after a failed frame write and was removed
\* from the stream, while the other client of the same stream is still
\* registered with the frame in its slot and the accept loop goes on
C20_Witness ==
    \E h \in Conns, g \in Conns :
        /\ h # g
        /\ hpc[h] = "returned"
        /\ hloc[h].result = "Ok"
        /\ h \notin Registered
        /\ g \in Registered
        /\ cell[g].current # NoFrame
        /\ spc = "accept"


\* C17: once the cell of a consumer is closed, the consumer, whether it
\* calls get() afterwards or was parked inside get() at the close, leaves the
\* frame loop and its handler ends.
C17_ShutdownLiveness ==
    \A h \in Conns :
        (cell[h].closed /\ hpc[h] \in {"get", "wait", "woken", "now", "write"})
            ~> (hpc[h] \in {"returned", "exited"})

\* C18: closed never goes back to false; a get() returned none only on a
\* closed cell; and on a closed cell a get() returns none at its entry, also
\* with a frame in the slot (pending at the close or set after it).
C18_CloseIsTerminal ==
    /\ [](\A h \in Conns :
            /\ dep[h].none => cell[h].closed
            /\ cell[h].closed => FrameCellGet(cell[h]) = "none")
    /\ [][\A h \in Conns : cell[h].closed => cell'[h].closed]_vars

\* the consumer's get() returned none on the closed cell, and a frame set
\* after the close sits in the slot
C18_Witness ==
    /\ dep[1].none
    /\ cell[1].closed
    /\ cell[1].current # NoFrame
    /\ hpc[1] \in {"returned", "exited"}


\* C19: when the client of a handler that is in its frame loop has
\* disconnected, the handler's cell is eventually out of the clients map and
\* the handler has exited and given its permit back.
C19_DisconnectReleases ==
    \A h \in Conns :
        (~peer[h] /\ hpc[h] \in {"get", "wait", "woken", "now", "write"})
            ~> (hpc[h] = "exited" /\ h \notin Registered)


\* the StreamSelect the server's handler reads: the first three bytes the
\* client wrote
Selected == StreamSelectRead(SubSeq(client.req, 1, 3))

\* C12: handshake echo.  Every StreamInfo a handler wrote decodes to the id
\* of the StreamSelect it answers and to the format, width and height
\* registered for that stream.  On the client, a select_stream that decoded a
\* StreamInfo returned Ok exactly when the decoded id is the id asked for and
\* InvalidStream exactly when it is not; the client is Ready only after an Ok,
\* and is not Ready after an InvalidStream.
C12_HandshakeEcho ==
    /\ \A h \in Conns : \A i \in DOMAIN out[h] :
          out[h][i].kind = "StreamInfo" =>
             /\ Len(client.req) >= 3
             /\ HasStream(streams, Selected.stream_id)
             /\ StreamInfoRead(out[h][i].bytes).ok
             /\ StreamInfoRead(out[h][i].bytes).info =
                   [id |-> Selected.stream_id,
                    format |-> VecGet(streams, Selected.stream_id).format,
                    width |-> VecGet(streams, Selected.stream_id).width,
                    height |-> VecGet(streams, Selected.stream_id).height]
    /\ client.sres.kind \in {"Ok", "InvalidStream"} =>
          /\ client.sres.kind = "Ok" <=> client.sres.info.id = client.sres.stream_id
          /\ client.sres.kind = "InvalidStream" => ~client.ready
    /\ client.sres.kind = "Ok" => client.ready
    /\ client.ready => client.sres.kind = "Ok"
    /\ client.sres.kind \notin {"Ok", "InvalidStream"} => client.sres.info = NoInfo

\* a client of the server selected stream 1 and is Ready, holding the
\* StreamInfo of stream 1
C12_Witness ==
    /\ ~client.foreign
    /\ client.ready
    /\ client.sres.kind = "Ok"
    /\ client.sres.stream_id = 1
    /\ client.sres.info = [id |-> 1, format |-> MJpeg, width |-> 2, height |-> 258]


\* C13: a request for the next frame (next of the blocking client, read_next
\* of the async one) made on a client no select_stream of which returned Ok
\* yields NotReady and leaves the bytes on the socket, and the bytes written
\* to it, as they were.
C13_NotReady ==
    [][(Len(client'.got) = Len(client.got) + 1 /\ client.sres.kind # "Ok") =>
          /\ client'.got[Len(client'.got)] = Item("NotReady", NoItem)
          /\ client'.wire = client.wire
          /\ client'.req = client.req]_vars

\* a client that is not Ready was asked for a frame while bytes were waiting
\* on its socket: it answered NotReady and the bytes are still there
C13_Witness ==
    /\ client.sres.kind # "Ok"
    /\ client.got # <<>>
    /\ client.got[Len(client.got)].kind = "NotReady"
    /\ client.wire # <<>>


\* C14: once the frame sequence of the blocking client has yielded an error,
\* it yields nothing more: an error is the last element next() ever returned.
C14_ErrorEndsSequence ==
    ~client.async =>
        \A i \in DOMAIN client.got :
            client.got[i].kind # "Frame" => i = Len(client.got)

\* C15: version check.  A client object exists only if the greeting read by
\* connect starts with the magic 'R' and carries api_version 1; a greeting of
\* the magic and another version v made connect fail with ApiVersion(v), one
\* of another magic with Decode, and after a failed connect nothing was
\* written to the peer.  Every greeting a handler wrote carries the magic and
\* api_version 1.
C15_VersionCheck ==
    /\ client.cres.kind = "Ok" <=> client.cpc \in {"connected", "selecting"}
    /\ client.cpc \in {"connected", "selecting"} =>
          client.greet[1] = 82 /\ client.greet[2] = 1
    /\ (client.greet # <<>> /\ client.greet[1] = 82 /\ client.greet[2] # 1) =>
          client.cres = Result("ApiVersion", client.greet[2])
    /\ (client.greet # <<>> /\ client.greet[1] # 82) =>
          client.cres = Result("Decode", 0)
    /\ client.cres.kind \notin {"none", "Ok"} =>
          client.cpc = "failed" /\ client.req = <<>> /\ client.got = <<>>
    /\ \A h \in Conns : \A i \in DOMAIN out[h] :
          out[h][i].kind = "Greeting" =>
             out[h][i].bytes[1] = 82 /\ out[h][i].bytes[2] = 1

\* connect read the greeting 52 02 00 00 and failed with ApiVersion(2)
C15_Witness ==
    /\ client.greet = <<82, 2, 0, 0>>
    /\ client.cres = Result("ApiVersion", 2)
    /\ client.cpc = "failed"


\* C21: the blocking and the async client are the same on the wire: what a
\* client has written to the server is the StreamSelect of each of its
\* select_stream calls and nothing else, whichever of the two it is.
C21_WireEquivalent == client.req = client.selw


\* C22: a handler that has written or is writing its greeting and whose
\* client does not send the StreamSelect does not stay: unless the
\* StreamSelect arrives, the handler ends with an I/O error, no cell of it is
\* in the registry, and its permit is back in the semaphore.
C22_HandshakeTimeout ==
    \A h \in {1} :
        (hpc[h] \in {"greet", "select"} /\ Len(client.req) < 3)
            ~> \/ Len(client.req) >= 3
               \/ /\ hpc[h] = "exited"
                  /\ hloc[h].result = "Io"
                  /\ h \notin Registered
                  /\ client_id = 0
                  /\ sem.permissions = 0

\* the client stayed connected and sent nothing; the timeout passed and the
\* handler has exited with an I/O error, its permit released
C22_Witness ==
    /\ peer[1]
    /\ client.req = <<>>
    /\ now >= TimeoutTicks
    /\ hpc[1] = "exited"
    /\ hloc[1].result = "Io"
    /\ out[1] = <<Msg("Greeting", greetings(streams), NoFrame, NoTime)>>
    /\ sem.permissions = 0


\* C23: a thread that is about to call or is inside FrameCell::set does not
\* hold the registry mutex; a handler that is about to read from or write to
\* its socket holds no mutex at all; inside set only the mutex of that cell
\* is held; and once get() has returned a frame the handler does not hold
\* the cell's mutex.
C23_LockDiscipline ==
    /\ \A p \in Producers :
          /\ ppc[p] \in {"set", "set_locked"} => StreamsMutex \notin psf[p].held
          /\ ppc[p] = "set_locked" =>
                psf[p].held = {ValueMutex(Head(psf[p].clients))}
    /\ \A h \in Conns :
          /\ hpc[h] \in {"greet", "greet_write", "select", "winfo", "write"} =>
                hloc[h].held = {}
          /\ hpc[h] \in {"now", "write"} => ValueMutex(h) \notin hloc[h].held

\* a producer is inside set, holding the mutex of a cell, while one handler
\* writes a frame to its socket and the other holds the registry mutex
C23_Witness ==
    /\ ppc["p1"] = "set_locked"
    /\ psf["p1"].held # {}
    /\ \E h \in Conns : hpc[h] = "write" /\ peer[h]
    /\ \E h \in Conns : StreamsMutex \in hloc[h].held


\* the handler threads that exist: spawned and not yet ended
Alive == {h \in Conns : hpc[h] \notin {"none", "exited"}}

\* C24: permit accounting.  Once serve() runs the count of the semaphore is
\* between 0 and the capacity and is the number of handler threads alive plus
\* the one permit the accept loop has acquired and not yet moved into a
\* thread; the count goes down only by one and only in the step in which a
\* handler thread ends, and every handler thread that ends takes it down.
C24_PermitAccounting ==
    /\ [](spc # "new" =>
            /\ 0 <= sem.permissions
            /\ sem.permissions <= sem.capacity
            /\ sem.permissions = Cardinality(Alive) + (IF spc = "spawn" THEN 1 ELSE 0))
    /\ [][/\ sem'.permissions < sem.permissions =>
                /\ sem'.permissions = sem.permissions - 1
                /\ \E h \in Conns : hpc[h] = "returned" /\ hpc'[h] = "exited"
          /\ \A h \in Conns :
                (hpc[h] # "exited" /\ hpc'[h] = "exited") =>
                    /\ hpc[h] = "returned"
                    /\ sem'.permissions = sem.permissions - 1]_vars

\* one handler has ended by the panic of max_fps = 0 and its permit is back,
\* the other is alive and holds the only permit taken
C24_Witness ==
    /\ \E h \in Conns : hpc[h] = "exited" /\ hloc[h].result = "Panic"
    /\ Cardinality(Alive) = 1
    /\ sem.permissions = 1
    /\ spc = "accept"


\* the kinds of the messages written to the socket of handler h, in order
Kinds(h) == [i \in DOMAIN out[h] |-> out[h][i].kind]

\* C25: step order of a connection.  What a handler has written is the
\* Greeting, then at most one StreamInfo, then Frames only; a handler that
\* has read its StreamSelect and not yet answered has written the Greeting and
\* nothing else; a handler that has allocated its client id, and any cell
\* that is in a clients map, belongs to a connection whose StreamInfo is
\* written.
C25_StepOrder ==
    \A h \in Conns :
        /\ out[h] # <<>> => Kinds(h)[1] = "Greeting"
        /\ \A i \in DOMAIN out[h] :
              /\ i = 2 => Kinds(h)[i] = "StreamInfo"
              /\ i > 2 => Kinds(h)[i] = "Frame"
        /\ hpc[h] \in {"greet", "none"} => out[h] = <<>>
        /\ hpc[h] \in {"select", "info", "winfo"} => Kinds(h) = <<"Greeting">>
        /\ (hpc[h] \in {"alloc", "add", "get", "wait", "woken", "now", "write"}
               \/ h \in Registered) =>
              (Len(out[h]) >= 2 /\ Kinds(h)[2] = "StreamInfo")

\* a registered handler has written Greeting, StreamInfo and one Frame
C25_Witness ==
    \E h \in Conns :
        /\ h \in Registered
        /\ Kinds(h) = <<"Greeting", "StreamInfo", "Frame">>


\* C26: the rate-limit decision.  In the step in which a handler decides on
\* the frame it took, the frame goes to the write exactly when none was
\* written before on the connection or the time since last_frame, times
\* max_fps, is at least one second; then last_frame becomes the time just
\* read, else last_frame and the socket stay as they are.  A frame that is
\* written carries that time, and last_frame is None exactly while no frame
\* was written.
C26_RateDecision ==
    /\ [](\A h \in Conns :
            /\ hpc[h] \in {"get", "wait", "woken", "now"} =>
                  (hloc[h].last_frame = NoTime <=> FramesOut(h) = <<>>)
            /\ FramesOut(h) # <<>> =>
                  /\ FramesOut(h)[Len(FramesOut(h))].ts <= now
                  /\ hpc[h] \in {"get", "wait", "woken", "now"} =>
                        FramesOut(h)[Len(FramesOut(h))].ts = hloc[h].last_frame)
    /\ [][\A h \in Conns :
            (hpc[h] = "now" /\ hpc'[h] # "now") =>
               LET due == \/ hloc[h].last_frame = NoTime
                          \/ (now - hloc[h].last_frame) * hloc[h].max_fps >= TicksPerSec
               IN /\ hpc'[h] = "write" <=> due
                  /\ due => hloc'[h].last_frame = now /\ hloc'[h].frame = hloc[h].frame
                  /\ ~due => /\ hpc'[h] = "get"
                             /\ hloc'[h].last_frame = hloc[h].last_frame
                             /\ out' = out]_vars

\* a frame was written at some time; the next frame was taken one tick later
\* at 1 frame per second, was dropped, and last_frame is still the time of
\* the first
C26_Witness ==
    \E h \in Conns :
        /\ hpc[h] = "get"
        /\ hloc[h].max_fps = 1
        /\ Len(FramesOut(h)) = 1
        /\ dep[h].taken
        /\ dep[h].at_take # FramesOut(h)[1].frame
        /\ hloc[h].last_frame = FramesOut(h)[1].ts
        /\ now = hloc[h].last_frame + 1


\* the handler threads that have left handle_connection
Terminated == {h \in Conns : hpc[h] \in {"returned", "exited"}}

\* C27: no registration outlives its handler.  The cell of a handler that
\* has terminated is in no clients map, and a send_frame call that starts
\* afterwards has no such cell in its snapshot, so it sets nothing into it.
C27_NoStaleRegistration ==
    /\ [](Terminated \cap Registered = {})
    /\ [][\A p \in Producers :
            (ppc[p] = "idle" /\ ppc'[p] # "idle") =>
                Range(psf'[p].clients) \cap Terminated = {}]_vars

\* a handler that was registered has ended on a write error and is out of
\* the map; a send_frame that started afterwards is about to set into the
\* cell of the other handler only
C27_Witness ==
    \E h \in Conns :
        /\ hpc[h] = "exited"
        /\ hloc[h].result = "Ok"
        /\ dep[h].taken
        /\ \E p \in Producers :
              /\ ppc[p] = "set"
              /\ psf[p].clients # <<>>
              /\ h \notin Range(psf[p].clients)
              /\ h \notin psf[p].deposited


\* the handlers that hold a client id: past fetch_add, inside the frame loop
\* or about to enter it
Allocated == {h \in Conns : hpc[h] \in {"add", "get", "wait", "woken", "now", "write"}}

\* the keys of the clients map of the i-th stream of the registry
Keys(i) == DOMAIN streams.vec[i].clients

\* C28: client ids are unique.  Two handlers never hold the same id; every id
\* held, and every key of a clients map, is below the counter, which only
\* grows, by one with each id handed out; a key is in one clients map only
\* and maps to the cell of the handler that holds that id; and add_client
\* inserts under a key that is in no map.
C28_UniqueClientIds ==
    /\ [](/\ \A h1, h2 \in Allocated :
                h1 # h2 => hloc[h1].client_id # hloc[h2].client_id
          /\ \A h \in Allocated : hloc[h].client_id < client_id
          /\ \A i, j \in DOMAIN streams.vec : i # j => Keys(i) \cap Keys(j) = {}
          /\ \A i \in DOMAIN streams.vec : \A k \in Keys(i) :
                /\ k < client_id
                /\ streams.vec[i].clients[k] \in Allocated
                /\ hloc[streams.vec[i].clients[k]].client_id = k)
    /\ [][/\ client_id' \in {client_id, client_id + 1}
          /\ \A h \in Conns :
                /\ (hpc[h] = "alloc" /\ hpc'[h] # "alloc") =>
                      /\ hloc'[h].client_id = client_id
                      /\ client_id' = client_id + 1
                /\ (hpc[h] = "add" /\ hpc'[h] = "get") =>
                      \A i \in DOMAIN streams.vec : hloc[h].client_id \notin Keys(i)]_vars

\* the client with id 0 has been removed and its handler has ended; the
\* handler that came after it holds id 1, not 0, and is registered under it
C28_Witness ==
    \E h1, h2 \in Conns :
        /\ hpc[h1] = "exited"
        /\ dep[h1].taken
        /\ h2 \in Allocated
        /\ hloc[h2].client_id = 1
        /\ client_id = 2
        /\ \E i \in DOMAIN streams.vec :
              Keys(i) = {1} /\ streams.vec[i].clients[1] = h2


\* C29: add_client.  For a registered stream the call puts a cell that is
\* empty and not closed under the client id into the clients map of that
\* stream and changes nothing else; for a stream that is not registered it
\* returns InvalidStream and the registry is as it was.  No send_frame that is
\* running when a cell is registered has that cell in its snapshot, and a set
\* goes only into a cell of the snapshot of its call.
C29_AddClient ==
    [][/\ \A h \in Conns :
            (hpc[h] = "add" /\ hpc'[h] # "add") =>
               IF hloc[h].stream_id < VecLen(streams)
               THEN /\ hpc'[h] = "get"
                    /\ cell'[h] = [current |-> NoFrame, closed |-> FALSE]
                    /\ \A g \in Conns \ {h} : cell'[g] = cell[g]
                    /\ streams'.head = streams.head
                    /\ Len(streams'.vec) = Len(streams.vec)
                    /\ \A i \in DOMAIN streams.vec :
                          /\ streams'.vec[i].format = streams.vec[i].format
                          /\ streams'.vec[i].width = streams.vec[i].width
                          /\ streams'.vec[i].height = streams.vec[i].height
                          /\ i # hloc[h].stream_id - streams.head + 1 =>
                                streams'.vec[i].clients = streams.vec[i].clients
                          /\ i = hloc[h].stream_id - streams.head + 1 =>
                                /\ DOMAIN streams'.vec[i].clients =
                                      DOMAIN streams.vec[i].clients \cup {hloc[h].client_id}
                                /\ streams'.vec[i].clients[hloc[h].client_id] = h
                                /\ \A k \in DOMAIN streams.vec[i].clients :
                                      k # hloc[h].client_id =>
                                         streams'.vec[i].clients[k] =
                                            streams.vec[i].clients[k]
                    /\ \A p \in Producers :
                          h \notin psf[p].registered /\ h \notin Range(psf[p].clients)
               ELSE /\ hpc'[h] = "returned"
                    /\ hloc'[h].result = "InvalidStream"
                    /\ streams' = streams
                    /\ cell' = cell
       /\ \A h \in Conns :
            (cell'[h].current # cell[h].current /\ cell'[h].current # NoFrame) =>
               \E p \in Producers :
                  /\ ppc[p] = "set"
                  /\ h \in psf[p].registered
                  /\ cell'[h].current = psf[p].frame]_vars

\* one handler was answered InvalidStream; the other was registered while a
\* send_frame to its stream was running: its cell is not in the snapshot of
\* that call and is empty
C29_Witness ==
    \E h1, h2 \in Conns, p \in Producers :
        /\ hpc[h1] \in {"returned", "exited"}
        /\ hloc[h1].result = "InvalidStream"
        /\ h2 \in Registered
        /\ hpc[h2] \in {"get", "wait"}
        /\ cell[h2] = FrameValueDefault
        /\ ppc[p] \in {"set", "ret"}
        /\ psf[p].stream_id = hloc[h2].stream_id
        /\ psf[p].result \in {"none", "Ok"}
        /\ h2 \notin psf[p].registered


\* the handler h is inside FrameCell::get: before the lock, under it, parked
\* on data_available, or notified and on its way back to the lock
InGet(h) == hpc[h] \in {"get", "get_locked", "wait", "woken", "woken_locked"}

\* C30: no lost wakeup.  A handler that is inside get while its cell, not
\* closed, holds a frame set by send_frame leaves get with a frame; a handler
\* is never parked on a cell that holds a frame; and the frame it leaves with
\* is the one set last.
C30_NoLostWakeup ==
    /\ \A h \in Conns :
          (InGet(h) /\ cell[h].current # NoFrame /\ ~cell[h].closed)
             ~> (hpc[h] = "now" /\ dep[h].taken /\ hloc[h].frame = dep[h].at_take
                   /\ hloc[h].frame # NoFrame)
    /\ [](\A h \in Conns : hpc[h] = "wait" => cell[h].current = NoFrame)
    /\ [][\A h \in Conns :
            (InGet(h) /\ hpc'[h] = "now") =>
               /\ hloc'[h].frame = dep[h].last
               /\ hloc'[h].frame = cell[h].current
               /\ cell'[h].current = NoFrame]_vars

\* the handler was parked in get, a set stored a frame and notified it, and
\* the handler has the lock again with the frame still in the cell
C30_Witness ==
    \E h \in Conns :
        /\ hpc[h] = "woken_locked"
        /\ cell[h].current # NoFrame
        /\ ~cell[h].closed
        /\ cell[h].current = dep[h].last


\* C31: the capacity of the gate is fixed when serve() starts.  serve() makes
\* its semaphore with the value max_clients has at that moment, so a
\* set_max_clients before it decides the capacity; afterwards no step, a
\* set_max_clients included, changes the capacity, the accept loop admits a
\* connection exactly while the count is below that capacity, and the
\* handlers alive are bounded by it and not by max_clients.
C31_CapacityFixedAtServe ==
    /\ [](spc # "new" =>
            /\ Cardinality(Alive) <= sem.capacity
            /\ spc = "acquire" => (ENABLED Acquire <=> sem.permissions < sem.capacity))
    /\ [][/\ (spc = "new" /\ spc' # "new") => sem'.capacity = max_clients
          /\ spc # "new" => sem'.capacity = sem.capacity
          /\ max_clients' # max_clients =>
                /\ sem' = sem
                /\ spc' = spc
                /\ hpc' = hpc]_vars

\* set_max_clients(1) was called after serve() had started with the default
\* capacity: two handlers run at the same time
C31_Witness ==
    /\ spc # "new"
    /\ max_clients = 1
    /\ sem.capacity = DEFAULT_MAX_CLIENTS
    /\ Cardinality(Alive) = 2
    /\ sem.permissions = 2


\* C32: readiness is monotone.  ready is false until a select_stream has
\* returned; it becomes true only in the step in which select_stream has read
\* a StreamInfo that decodes and whose id is the one asked for; no step makes
\* it false again, a select_stream that fails included; and a frame read of a
\* client that is ready never answers NotReady.
C32_ReadyMonotone ==
    /\ [](client.sres = NoSelect => ~client.ready)
    /\ [][/\ client.ready => client'.ready
          /\ (~client.ready /\ client'.ready) =>
                /\ client.cpc = "selecting"
                /\ client'.cpc = "connected"
                /\ Len(client.wire) >= 7
                /\ StreamInfoRead(SubSeq(client.wire, 1, 7)).ok
                /\ FromLE16(SubSeq(client.wire, 1, 2)) = client.sres.stream_id
                /\ client'.sres.kind = "Ok"
          /\ (client.cpc = "selecting" /\ client'.cpc = "connected"
                /\ client'.sres.kind # "Ok") => client'.ready = client.ready
          /\ (client.ready /\ Len(client'.got) > Len(client.got)) =>
                /\ client'.got[Len(client'.got)].kind # "NotReady"
                /\ client'.wire # client.wire \/ client.wire = <<>>]_vars

\* the client was Ready, a second select_stream read 7 bytes that are no
\* StreamInfo and failed, and the frame read after it returned the frame that
\* followed those bytes
C32_Witness ==
    /\ client.ready
    /\ client.nsel = 2
    /\ client.sres.kind = "Decode"
    /\ client.got = <<Item("Frame", Frame(None, <<255>>))>>

====
